---- MODULE Spec2Model ----
(***************************************************************************)
(* cfdm: ragged-array compression of a field construct (Field.compress,    *)
(* Field.uncompress, Field.transpose of the metadata constructs), the      *)
(* subarray descriptors of an indexed contiguous ragged array              *)
(* (RaggedIndexedContiguousArray.subarrays), subsampled arrays with linear *)
(* interpolation (SampledLinearArray), the constructors of the subsampled  *)
(* array classes, and the formula _fcea2cv of the quadratic geographic     *)
(* interpolation.                                                          *)
(*                                                                         *)
(* Arrays are 1-based sequences here; every index, slice bound and feature *)
(* number that the program stores (Index values, slice(start, stop),       *)
(* locations, tie point indices) keeps the program's 0-based value.        *)
(***************************************************************************)
EXTENDS Integers, Sequences, FiniteSets, TLC

\* ------------------------------------------------------------------ bounds

\* Largest number of elements of an uncompressed field array at Init.
MaxSize == 6

\* Largest number of profiles of an indexed contiguous array at Init.
MaxProfiles == 3

\* Largest number of elements of the data of a field with a metadata
\* construct of 2 or more dimensions at Init.
MaxFieldSize == 4

\* Largest number of elements of the uncompressed shape of an indexed
\* contiguous array whose compressed slices are examined.
MaxArraySize == 4

\* Largest number of elements of the data of a field whose axes are changed.
MaxAxesSize == 2

\* Largest size of the uncompressed dimension of a subsampled array at Init.
MaxLength == 6

\* Largest number of subsampled array instances.
MaxInstances == 3

\* ------------------------------------------------------------- data values

\* numpy.ma.masked: the value of a missing element.
cfdm_masked == 0

\* A slot of Data.empty() that no assignment has filled yet.
Unset == -1

Min(a, b) == IF a < b THEN a ELSE b

RECURSIVE Sum(_)
\* Python's sum() of a sequence of integers.
Sum(s) == IF s = <<>> THEN 0 ELSE Head(s) + Sum(Tail(s))

RECURSIVE Prod(_)
\* Data.size: the product of the shape.
Prod(s) == IF s = <<>> THEN 1 ELSE Head(s) * Prod(Tail(s))

RECURSIVE Filter(_, _)
\* [n for n in s if n != drop]
Filter(s, drop) ==
    IF s = <<>> THEN <<>>
    ELSE IF Head(s) = drop THEN Filter(Tail(s), drop)
    ELSE <<Head(s)>> \o Filter(Tail(s), drop)

\* A python slice x[start:stop] of a sequence (0-based bounds, clamped).
Slice(x, start, stop) == SubSeq(x, start + 1, Min(stop, Len(x)))

\* x[start:stop] = v for a sequence v (slice assignment into a 1-d array).
SetSlice(x, start, stop, v) ==
    [k \in 1..Len(x) |->
        IF k > start /\ k <= stop /\ k - start <= Len(v) THEN v[k - start]
        ELSE x[k]]

\* x[start:stop] = i for a scalar i (broadcast slice assignment).
SetSliceScalar(x, start, stop, i) ==
    [k \in 1..Len(x) |-> IF k > start /\ k <= stop THEN i ELSE x[k]]

\* Data.empty(shape=(n,)).
Empty(n) == [k \in 1..n |-> Unset]

\* ------------------------------------------------- arrays of any dimension

RECURSIVE reshape(_, _)
\* The array of shape sh whose elements in row-major order are those of the
\* sequence: nested sequences, one level per dimension.
reshape(flat, sh) ==
    IF sh = <<>> THEN flat[1]
    ELSE LET chunk == Prod(Tail(sh))
         IN  [k \in 1..Head(sh) |->
                 reshape(SubSeq(flat, (k - 1) * chunk + 1, k * chunk),
                         Tail(sh))]

RECURSIVE element(_, _)
\* array[idx] for a tuple idx of one integer (from 0) per dimension.
element(arr, idx) ==
    IF idx = <<>> THEN arr ELSE element(arr[Head(idx) + 1], Tail(idx))

RECURSIVE unravel_index(_, _)
\* The index tuple of the element at row-major position k (from 0).
unravel_index(k, sh) ==
    IF sh = <<>> THEN <<>>
    ELSE LET chunk == Prod(Tail(sh))
         IN  <<k \div chunk>> \o unravel_index(k % chunk, Tail(sh))

\* The shape after array.transpose(iaxes): new dimension k is old iaxes[k].
transposed_shape(sh, iaxes) == [k \in DOMAIN iaxes |-> sh[iaxes[k] + 1]]

\* array.transpose(iaxes): the element at new index j is the old element at
\* the index i with i[iaxes[k]] = j[k].
transpose(arr, sh, iaxes) ==
    LET newsh == transposed_shape(sh, iaxes)
        old(j) == [d \in DOMAIN sh |->
                      j[CHOOSE k \in DOMAIN iaxes : iaxes[k] = d - 1]]
    IN  reshape([q \in 1..Prod(sh) |->
                    element(arr, old(unravel_index(q - 1, newsh)))], newsh)

\* array[indices] with one list of positions per dimension, each list
\* working on its own dimension: the element at new index j is the old
\* element at (sel[1][j[1]], sel[2][j[2]], ...).
take(arr, sel) ==
    LET newsh == [d \in DOMAIN sel |-> Len(sel[d])]
        old(j) == [d \in DOMAIN sel |-> sel[d][j[d] + 1]]
    IN  reshape([q \in 1..Prod(newsh) |->
                    element(arr, old(unravel_index(q - 1, newsh)))], newsh)

\* ------------------------------------------------------------------- state

VARIABLES
    shape,           \* data.shape of the field's data (uncompressed shape)
    data,            \* the uncompressed array, when the data is not compressed
    ctype,           \* data.get_compression_type()
    cdata,           \* the compressed array (1-d, the sample dimension)
    count_variable,  \* data.get_count() of the compressed array
    index_variable,  \* data.get_index() of the compressed array
    method,          \* the method of the compress call that built cdata, or ""
    A,               \* the array that call encoded
    count,           \* that call's local list `count`
    N,               \* that call's local N
    err,             \* the exception the last call raised, or ""
    array,           \* the result of the last read of f.array, or <<>>
    u_indices,       \* the four sequences of the last subarrays() call
    u_shapes,
    c_indices,
    locations,
    data_axes,       \* f.get_data_axes(): the domain axes of the field's data
    c_axes,          \* the data axes of a metadata construct of the field
                     \* whose data has 2 or more dimensions, or <<>>
    called           \* the method of the last compress call ("" when none
                     \* or when uncompress has been called since)

\* The arguments and the result of a QuadraticGeographicInterpolation
\* formula call.
VARIABLES
    va, vb,          \* two cartesian vectors
    ce, ca,          \* the coefficients: <<>> is None, <<r>> is the number r
    cv               \* the returned vector, <<>> before the call

\* A subsampled array with linear interpolation (a SampledLinearArray with
\* one subsampled dimension) and the coefficient cache of its class.
VARIABLES
    tie_points,          \* get_tie_points(): the compressed array
    tie_point_indices,   \* the tie point index variable of dimension 0
    s_cache,             \* the keys (d, size) held by the cache of _s
    indices,             \* the indices of the last x[indices], "" before
    fast,                \* whether _first_or_last_index returned its result
    uarray,              \* the un-sliced uncompressed array of that request
    written,             \* how often each of its positions was assigned
    result,              \* the array that the request returned, or <<>>
    raised,              \* the exception that the request raised, or ""
    interp               \* the last _linear_interpolation call, or <<>>

\* Subsampled array instances and the dict objects of their tie point
\* indices.
VARIABLES
    heap,            \* the dict objects: heap[id] is the set of the keys
                     \* (subsampled dimensions) of the dict with that id
    held             \* the instances: the class of each, and the id of the
                     \* dict that it holds as its tie_point_indices

\* The domain axes of the field, the data of the metadata construct whose
\* axes are c_axes, and the field that a call was made on.
VARIABLES
    domain_axes,     \* the size of each domain axis: axis k at position k + 1
    c_data,          \* the construct's uncompressed array, when its data is
                     \* not compressed; <<>> when there is no construct
    c_ctype,         \* the compression type of the construct's data
    c_cdata,         \* the construct's compressed array
    c_shape,         \* the (uncompressed) shape of the construct's data
    source           \* the last call as its caller sees it: its arguments
                     \* and `self` as it is after the call; <<>> when the
                     \* caller keeps neither

fieldVars ==
    <<shape, data, ctype, cdata, count_variable, index_variable, method,
      A, count, N, err, array, u_indices, u_shapes, c_indices, locations,
      data_axes, c_axes, called>>

geoVars == <<va, vb, ce, ca, cv>>

linVars ==
    <<tie_points, tie_point_indices, s_cache, indices, fast, uarray, written,
      result, raised, interp>>

instVars == <<heap, held>>

metaVars == <<domain_axes, c_data, c_ctype, c_cdata, c_shape>>

vars == <<fieldVars, geoVars, linVars, instVars, metaVars, source>>

\* ------------------------------------------------- subarray descriptors

RECURSIVE product(_)
\* itertools.product(*ls): row-major, the last list varies fastest.
product(ls) ==
    IF ls = <<>> THEN << <<>> >>
    ELSE LET h == Head(ls)
             rest == product(Tail(ls))
         IN  [k \in 1..(Len(h) * Len(rest)) |->
                 <<h[((k - 1) \div Len(rest)) + 1]>> \o
                 rest[((k - 1) % Len(rest)) + 1]]

RECURSIVE SortedSeq(_)
\* The elements of a finite set of integers in ascending order.
SortedSeq(S) ==
    IF S = {} THEN <<>>
    ELSE LET m == CHOOSE x \in S : \A y \in S : x <= y
         IN  <<m>> \o SortedSeq(S \ {m})

\* np.unique(index).tolist()
unique(index) == SortedSeq({index[k] : k \in DOMAIN index})

\* The counts themselves, not accumulated.
NotSummed(cnt) == cnt

\* np.cumsum(count).tolist()
cumsum(cnt) == [k \in 1..Len(cnt) |-> Sum(SubSeq(cnt, 1, k))]

\* np.where(index == i)[0]: the 0-based positions, ascending.
where(index, i) == SortedSeq({k - 1 : k \in {q \in DOMAIN index : index[q] = i}})

\* (x,) * n, which is empty for n <= 0.
Repeat(x, n) == [k \in 1..n |-> x]

\* The inner loop over profile_locations: one slice per profile j.
ProfileSlices(profile_locations, count_partial_sums) ==
    [q \in 1..Len(profile_locations) |->
        LET j == profile_locations[q]
            start == IF j = 0 THEN 0 ELSE count_partial_sums[j]
        IN  <<start, count_partial_sums[j + 1]>>]

RECURSIVE FeatureLoop(_, _, _, _)
\* The loop over `unique` that builds `ind`.
FeatureLoop(uniq, index, count_partial_sums, max_n_profiles) ==
    IF uniq = <<>> THEN <<>>
    ELSE LET profile_locations == where(index, Head(uniq))
         IN  ProfileSlices(profile_locations, count_partial_sums)
             \o Repeat(<<0, 0>>, max_n_profiles - Len(profile_locations))
             \o FeatureLoop(Tail(uniq), index, count_partial_sums,
                            max_n_profiles)

\* RaggedIndexedContiguousArray.subarrays(): the four sequences.  A slice is
\* <<start, stop>> and slice(None) is <<>>.
subarrays(cnt, index, uncompressed_shape) ==
    LET n_features == uncompressed_shape[1]
        max_n_profiles == uncompressed_shape[2]
        ind == FeatureLoop(unique(index), index, cumsum(cnt), max_n_profiles)
    IN  [u_indices |->
            product(<< [i \in 1..n_features |-> <<i - 1, i>>],
                       [j \in 1..max_n_profiles |-> <<j - 1, j>>],
                       << <<>> >> >>),
         u_shapes |->
            product(<< Repeat(1, n_features),
                       Repeat(1, max_n_profiles),
                       <<uncompressed_shape[3]>> >>),
         c_indices |-> product(<<ind>>),
         locations |->
            product(<< [i \in 1..n_features |-> i - 1],
                       [j \in 1..max_n_profiles |-> j - 1],
                       <<0>> >>)]

\* ---------------------------------------------------------------- decoding

\* A run copied into an uncompressed row of n elements: min(source length,
\* destination length) elements, the remainder missing.
Pad(run, n) == [e \in 1..n |-> IF e <= Len(run) THEN run[e] ELSE cfdm_masked]

\* Contiguous: run i, bounded by the cumulative sums of Count, goes to row i.
DecodeContiguous(cd, cnt, sh) ==
    [r \in 1..sh[1] |->
        IF r <= Len(cnt)
        THEN LET start == Sum(SubSeq(cnt, 1, r - 1))
             IN  Pad(Slice(cd, start, start + cnt[r]), sh[2])
        ELSE Pad(<<>>, sh[2])]

RECURSIVE ScanIndexed(_, _, _, _, _)
\* Indexed: one scan in compressed order; element j is appended to the next
\* free slot of row Index[j].
ScanIndexed(u, free, cd, index, j) ==
    IF j > Len(cd) THEN u
    ELSE LET r == index[j] + 1
         IN  IF r \in DOMAIN u /\ free[r] <= Len(u[r])
             THEN ScanIndexed([u EXCEPT ![r][free[r]] = cd[j]],
                              [free EXCEPT ![r] = @ + 1], cd, index, j + 1)
             ELSE ScanIndexed(u, free, cd, index, j + 1)

DecodeIndexed(cd, index, sh) ==
    ScanIndexed([r \in 1..sh[1] |-> Pad(<<>>, sh[2])],
                [r \in 1..sh[1] |-> 1], cd, index, 1)

\* Indexed contiguous: the descriptors are consumed in step (zip), each
\* filling the subarray at its uncompressed indices from its compressed slice.
DecodeFromSubarrays(cd, subs, sh) ==
    LET n == Min(Min(Len(subs.u_indices), Len(subs.u_shapes)),
                 Min(Len(subs.c_indices), Len(subs.locations)))
        Hit(f, p) == {k \in 1..n : /\ subs.u_indices[k][1][1] = f - 1
                                   /\ subs.u_indices[k][2][1] = p - 1}
    IN  [f \in 1..sh[1] |-> [p \in 1..sh[2] |->
            IF Hit(f, p) = {} THEN Pad(<<>>, sh[3])
            ELSE LET k == CHOOSE q \in Hit(f, p) : TRUE
                     c == subs.c_indices[k][1]
                 IN  Pad(Slice(cd, c[1], c[2]), subs.u_shapes[k][3])]]

DecodeIndexedContiguous(cd, cnt, index, sh) ==
    DecodeFromSubarrays(cd, subarrays(cnt, index, sh), sh)

\* The uncompressed array of a compressed array of the given type.
Decode(ct, cd, cnt, index, sh) ==
    CASE ct = "ragged contiguous" -> DecodeContiguous(cd, cnt, sh)
      [] ct = "ragged indexed" -> DecodeIndexed(cd, index, sh)
      [] ct = "ragged indexed contiguous" ->
            DecodeIndexedContiguous(cd, cnt, index, sh)

\* f.array: the field's data as an uncompressed array.
FieldArray ==
    IF ctype = "" THEN data
    ELSE Decode(ctype, cdata, count_variable, index_variable, shape)

\* ---------------------------------------------------------------- encoding

\* data.flatten(range(data.ndim - 1)): the rows along the last axis, in
\* row-major order of the leading axes.
flatten(arr, sh) ==
    IF Len(sh) = 2 THEN arr
    ELSE [k \in 1..(sh[1] * sh[2]) |->
            arr[((k - 1) \div sh[2]) + 1][((k - 1) % sh[2]) + 1]]

RECURSIVE TrimLoop(_, _)
\* for i in d[::-1]: if i is not cfdm_masked: break; else: last -= 1
TrimLoop(d, last) ==
    IF last = 0 THEN 0
    ELSE IF d[last] # cfdm_masked THEN last
    ELSE TrimLoop(d, last - 1)

\* Variant of Last: the number of non-missing elements of the row.
LastNonMissingCount(d) == Len(Filter(d, cfdm_masked))

\* The value appended to `count` for the row d.
Last(d) == TrimLoop(d, Len(d))

\* The list `count` after the loop over flattened_data.
CountList(flattened_data) ==
    [r \in 1..Len(flattened_data) |-> Last(flattened_data[r])]

RECURSIVE FillData(_, _, _, _, _)
\* for last, d in zip(count, flattened_data): ... compressed[start:end] = d[:last]
FillData(buf, cnt, flattened_data, r, start) ==
    IF r > Min(Len(cnt), Len(flattened_data)) THEN buf
    ELSE LET last == cnt[r]
         IN  IF last = 0
             THEN FillData(buf, cnt, flattened_data, r + 1, start)
             ELSE FillData(SetSlice(buf, start, start + last,
                                    Slice(flattened_data[r], 0, last)),
                           cnt, flattened_data, r + 1, start + last)

\* Variant of CountVariable: Data(count), the zero counts kept.
CountVariableAll(cnt) == cnt

\* Data([n for n in count if n]) of the count variable.
CountVariable(cnt) == Filter(cnt, 0)

RECURSIVE FillIndexDense(_, _, _, _)
\* Variant of FillIndex: the rows that have elements are numbered 0, 1, 2, ...
FillIndexDense(buf, cnt, r, start) ==
    IF r > Len(cnt) THEN buf
    ELSE LET last == cnt[r]
             i == Len(Filter(SubSeq(cnt, 1, r - 1), 0))
         IN  IF last = 0 THEN FillIndexDense(buf, cnt, r + 1, start)
             ELSE FillIndexDense(SetSliceScalar(buf, start, start + last, i),
                                 cnt, r + 1, start + last)

RECURSIVE FillIndexOneBased(_, _, _, _)
\* Variant of FillIndex: the rows are numbered from 1.
FillIndexOneBased(buf, cnt, r, start) ==
    IF r > Len(cnt) THEN buf
    ELSE LET last == cnt[r]
         IN  IF last = 0 THEN FillIndexOneBased(buf, cnt, r + 1, start)
             ELSE FillIndexOneBased(SetSliceScalar(buf, start, start + last, r),
                                    cnt, r + 1, start + last)

RECURSIVE FillIndex(_, _, _, _)
\* for i, (last, d) in enumerate(zip(count, flattened_data)):
\*     ... index_variable.data[start:end] = i
FillIndex(buf, cnt, r, start) ==
    IF r > Len(cnt) THEN buf
    ELSE LET last == cnt[r]
         IN  IF last = 0 THEN FillIndex(buf, cnt, r + 1, start)
             ELSE FillIndex(SetSliceScalar(buf, start, start + last, r - 1),
                            cnt, r + 1, start + last)

\* An index list that names each feature once per profile slot, empty or not.
IndexListAllSlots(cnt, shape0, shape1, i) ==
    [k \in 1..(shape0 * shape1) |-> (k - 1) \div shape1]

RECURSIVE IndexList(_, _, _, _)
\* for i in range(shape[0]):
\*     index.extend([i] * sum(n > 0 for n in count[shape1*i : shape1*i + shape1]))
IndexList(cnt, shape0, shape1, i) ==
    IF i >= shape0 THEN <<>>
    ELSE LET part == Slice(cnt, shape1 * i, shape1 * i + shape1)
             npos == Cardinality({k \in DOMAIN part : part[k] > 0})
         IN  Repeat(i, npos) \o IndexList(cnt, shape0, shape1, i + 1)

\* The method names compress() is called with; "zip" stands for any name
\* that is none of the four documented ones.
Methods == {"contiguous", "indexed", "indexed_contiguous", "gathered", "zip"}

\* The name of the contiguous compression, whatever the method.
ContiguousName(m) == "ragged_contiguous"

\* 'ragged_' + method
RaggedName(m) ==
    CASE m = "contiguous" -> "ragged_contiguous"
      [] m = "indexed" -> "ragged_indexed"
      [] m = "indexed_contiguous" -> "ragged_indexed_contiguous"
      [] m = "gathered" -> "ragged_gathered"
      [] OTHER -> "ragged_zip"

\* A compression type left with its spaces.
WithSpaces(ct) == ct

\* data.get_compression_type().replace(' ', '_')
Underscored(ct) ==
    CASE ct = "ragged contiguous" -> "ragged_contiguous"
      [] ct = "ragged indexed" -> "ragged_indexed"
      [] ct = "ragged indexed contiguous" -> "ragged_indexed_contiguous"
      [] OTHER -> ct

\* The compression type of the array class that compress() builds.
CompressionType(m) ==
    CASE m = "contiguous" -> "ragged contiguous"
      [] m = "indexed" -> "ragged indexed"
      [] m = "indexed_contiguous" -> "ragged indexed contiguous"

\* The methods that have a branch of compress() that builds an array: the
\* branch of 'gathered' and the final else raise ValueError.
IsRagged(m) == m \in {"contiguous", "indexed", "indexed_contiguous"}

\* Dimension checks that let every number of dimensions pass.
NoDimensionCheck(m, ndim) == FALSE

\* The dimension checks of compress(): TRUE when ValueError is raised.
WrongDimensions(m, ndim) ==
    \/ m = "contiguous" /\ ndim # 2
    \/ m = "indexed" /\ ndim # 2
    \/ m = "indexed_contiguous" /\ ndim # 3

\* ---------------------------------------------------------------- transpose

\* Python's range(n), as the 0-based positions of the data axes.
range(n) == [k \in 1..n |-> k - 1]

\* axis in axes
In(axis, axes) == \E k \in DOMAIN axes : axes[k] = axis

\* [data_axes[i] for i in iaxes]
new_data_axes(daxes, iaxes) == [k \in 1..Len(iaxes) |-> daxes[iaxes[k] + 1]]

RECURSIVE KeepIn(_, _)
\* [axis for axis in new_data_axes if axis in construct_axes]
KeepIn(ndaxes, construct_axes) ==
    IF ndaxes = <<>> THEN <<>>
    ELSE IF In(Head(ndaxes), construct_axes)
         THEN <<Head(ndaxes)>> \o KeepIn(Tail(ndaxes), construct_axes)
         ELSE KeepIn(Tail(ndaxes), construct_axes)

\* list.insert(i, axis)
Insert(ls, i, axis) ==
    SubSeq(ls, 1, Min(i, Len(ls))) \o <<axis>> \o
    SubSeq(ls, Min(i, Len(ls)) + 1, Len(ls))

RECURSIVE InsertMissing(_, _, _)
\* for i, axis in enumerate(construct_axes):
\*     if axis not in new_construct_axes: new_construct_axes.insert(i, axis)
InsertMissing(ncaxes, construct_axes, i) ==
    IF i >= Len(construct_axes) THEN ncaxes
    ELSE IF In(construct_axes[i + 1], ncaxes)
         THEN InsertMissing(ncaxes, construct_axes, i + 1)
         ELSE InsertMissing(Insert(ncaxes, i, construct_axes[i + 1]),
                            construct_axes, i + 1)

\* A transposition that leaves the axes of a metadata construct alone.
construct_axes_kept(ndaxes, construct_axes) == construct_axes

\* The data axes that Field.transpose(constructs=True) leaves a metadata
\* construct with: those of the field's data come in the field's order.
new_construct_axes(ndaxes, construct_axes) ==
    IF Len(construct_axes) < 2 THEN construct_axes
    ELSE InsertMissing(KeepIn(ndaxes, construct_axes), construct_axes, 0)

\* [construct_axes.index(axis) for axis in new_construct_axes]
construct_iaxes(construct_axes, ncaxes) ==
    [k \in DOMAIN ncaxes |->
        (CHOOSE i \in DOMAIN construct_axes :
            construct_axes[i] = ncaxes[k]) - 1]

\* --------------------------------------------------- the metadata construct

\* The shape of data that spans the given domain axes.
sizes(axes) == [k \in DOMAIN axes |-> domain_axes[axes[k] + 1]]

\* construct.data.array: the construct's data as an uncompressed array.  Its
\* compressed array holds the count and index variables of the field's.
ConstructArray ==
    IF c_ctype = "" THEN c_data
    ELSE Decode(c_ctype, c_cdata, count_variable, index_variable, c_shape)

\* The construct's data: uncompressed, compressed, and its shape.
ConstructData ==
    [c_data |-> c_data, c_ctype |-> c_ctype, c_cdata |-> c_cdata,
     c_shape |-> c_shape]

\* The construct's data after construct.transpose(iaxes, inplace=True) in
\* Field.transpose(constructs=True): untouched when there is no construct
\* of 2 or more dimensions.
transposed_construct(ncaxes) ==
    IF Len(c_axes) < 2 \/ ncaxes = c_axes THEN ConstructData
    ELSE [c_data |-> transpose(ConstructArray, c_shape,
                               construct_iaxes(c_axes, ncaxes)),
          c_ctype |-> "",
          c_cdata |-> <<>>,
          c_shape |-> transposed_shape(c_shape,
                                       construct_iaxes(c_axes, ncaxes))]

\* The construct's array after that transposition.
transposed_array(ncaxes) ==
    IF Len(c_axes) < 2 \/ ncaxes = c_axes THEN ConstructArray
    ELSE transpose(ConstructArray, c_shape,
                   construct_iaxes(c_axes, ncaxes))

RECURSIVE FillProfiles(_, _, _, _, _, _)
\* for i, d in enumerate(data.flatten(range(data.ndim-1))):
\*     last = sum(n > 0 for n in count[shape1*i : shape1*i + shape1])
\*     compressed_data[start:start+last] = d[:last]
FillProfiles(buf, cnt, rows, shape1, i, start) ==
    IF i >= Len(rows) THEN buf
    ELSE LET part == Slice(cnt, shape1 * i, shape1 * i + shape1)
             last == Cardinality({k \in DOMAIN part : part[k] > 0})
         IN  FillProfiles(
                 SetSlice(buf, start, start + last, Slice(rows[i + 1], 0, last)),
                 cnt, rows, shape1, i + 1, start + last)

\* _compress_metadata for the construct, after the transposition: both
\* calls of the method's branch of compress().  A construct whose axes are
\* those of the data, in that order, is compressed with the field's counts;
\* for 'indexed_contiguous' one whose axes are all but the last of the data
\* is compressed as an indexed ragged array of len(index) elements; any
\* other is skipped.
compress_metadata(m, cnt, n, index, ndaxes, ncaxes) ==
    IF ncaxes = <<>> THEN ConstructData
    ELSE IF ncaxes = ndaxes
    THEN [c_data |-> <<>>,
          c_ctype |-> CompressionType(m),
          c_cdata |-> FillData(Empty(n), cnt,
                               flatten(transposed_array(ncaxes),
                                       transposed_construct(ncaxes).c_shape),
                               1, 0),
          c_shape |-> transposed_construct(ncaxes).c_shape]
    ELSE IF m = "indexed_contiguous"
            /\ ncaxes = SubSeq(ndaxes, 1, Len(ndaxes) - 1)
    THEN [c_data |-> <<>>,
          c_ctype |-> "ragged indexed",
          c_cdata |-> FillProfiles(Empty(Len(index)), cnt,
                                   transposed_array(ncaxes), shape[2], 0, 0),
          c_shape |-> transposed_construct(ncaxes).c_shape]
    ELSE transposed_construct(ncaxes)

\* ------------------------------------------------- the axes of the data

\* The elements of an array in row-major order.
ravel(arr, sh) ==
    [q \in 1..Prod(sh) |-> element(arr, unravel_index(q - 1, sh))]

\* Python's list.insert(position, axis): a negative position counts from
\* the end of the list (-1 is before the last element), and a position
\* beyond either end is that end.
list_insert(ls, position, axis) ==
    Insert(ls,
           IF position >= 0 THEN position
           ELSE IF position + Len(ls) > 0 THEN position + Len(ls) ELSE 0,
           axis)

\* Data.insert_dimension(position): the position of the new axis in the
\* shape, a negative one counting from the last position of the new shape
\* (-1 is the last position).
expand_position(position, ndim) ==
    IF position < 0 THEN position + ndim + 1 ELSE position

\* data._parse_axes(axes): each position counted from 0.
parse_axes(axes, ndim) ==
    [k \in DOMAIN axes |-> IF axes[k] < 0 THEN axes[k] + ndim ELSE axes[k]]

\* data._parse_axes(axes) raises ValueError unless the axes are distinct
\* positions of the data.
valid_axes(axes, ndim) ==
    LET iaxes == parse_axes(axes, ndim)
    IN  /\ \A k \in DOMAIN iaxes : iaxes[k] \in 0..(ndim - 1)
        /\ \A j, k \in DOMAIN iaxes : j # k => iaxes[j] # iaxes[k]

\* [ls[i] for i in range(ndim) if i not in iaxes]
without(ls, iaxes) ==
    LET kept == SortedSeq({k \in DOMAIN ls : ~In(k - 1, iaxes)})
    IN  [j \in DOMAIN kept |-> ls[kept[j]]]

\* An index of one dimension of size n as the list of the positions that it
\* selects: an integer selects one position and keeps the dimension, a
\* slice selects a run, a list of integers selects its elements, and
\* slice(None) selects every position.  Negative integers count from the end.
positions(ind, n) ==
    LET norm(i) == IF i < 0 THEN i + n ELSE i
    IN  IF "int" \in DOMAIN ind THEN <<norm(ind.int)>>
        ELSE IF "list" \in DOMAIN ind
        THEN [k \in DOMAIN ind.list |-> norm(ind.list[k])]
        ELSE IF "slice" \in DOMAIN ind
        THEN LET start == ind.slice[1]
                 stop == ind.slice[2]
             IN  IF ind.slice[3] > 0
                 THEN [k \in 1..(stop - start) |-> start + k - 1]
                 ELSE [k \in 1..(start - stop) |-> start - k + 1]
        ELSE range(n)

\* data._parse_indices(indices): one list of positions per dimension of the
\* data, the dimensions that the indices do not reach being taken whole.
parse_indices(ind, sh) ==
    [d \in DOMAIN sh |->
        IF d <= Len(ind) THEN positions(ind[d], sh[d]) ELSE range(sh[d])]

\* Some index selects a position outside its dimension: IndexError.
out_of_range(sel, sh) ==
    \E d \in DOMAIN sel : \E k \in DOMAIN sel[d] :
        sel[d][k] \notin 0..(sh[d] - 1)

\* Domain axes that keep the sizes they have.
keep_sizes(daxes, newshape) == domain_axes

\* for key, size in zip(data_axes, new_data.shape):
\*     domain_axis.set_size(size)
set_sizes(daxes, newshape) ==
    [a \in DOMAIN domain_axes |->
        IF \E k \in DOMAIN daxes : daxes[k] = a - 1
        THEN newshape[CHOOSE k \in DOMAIN daxes : daxes[k] = a - 1]
        ELSE domain_axes[a]]

\* The `dice` of the construct in Field.__getitem__: for each of its axes
\* the index of that axis of the data, or slice(None).
dice(sel) ==
    [k \in DOMAIN c_axes |->
        IF In(c_axes[k], data_axes)
        THEN sel[CHOOSE d \in DOMAIN data_axes : data_axes[d] = c_axes[k]]
        ELSE range(c_shape[k])]

\* ----------------------------------------------------------------- actions

\* Field.compress(method, inplace=inplace): the whole call.  The field is f
\* itself when inplace, and is replaced by the returned field otherwise; a
\* call that raises returns nothing, so that only what it did in place stays.
Compress(m, inplace) ==
    LET current_compression_type == Underscored(ctype)
        arr == FieldArray
        flattened_data == flatten(arr, shape)
        cnt == CountList(flattened_data)
        n == Sum(cnt)
        compressed_field_data == FillData(Empty(n), cnt, flattened_data, 1, 0)
        \* f.transpose(range(self.data.ndim), constructs=True, inplace=True)
        ndaxes == new_data_axes(data_axes, range(Len(shape)))
        ncaxes == new_construct_axes(ndaxes, c_axes)
        index == IF m = "indexed_contiguous"
                 THEN IndexList(cnt, shape[1], shape[2], 0)
                 ELSE FillIndex(Empty(n), cnt, 1, 0)
        transposed == transposed_construct(ncaxes)
        compressed == compress_metadata(m, cnt, n, index, ndaxes, ncaxes)
    IN  /\ UNCHANGED <<geoVars, linVars, instVars, domain_axes>>
        /\ IF current_compression_type # ""
              /\ current_compression_type = RaggedName(m)
           THEN \* already compressed by this method: return f
                /\ err' = ""
                /\ called' = m
                /\ UNCHANGED <<shape, data, ctype, cdata, count_variable,
                               index_variable, method, A, count, N, array,
                               u_indices, u_shapes, c_indices, locations,
                               data_axes, c_axes, c_data, c_ctype,
                               c_cdata, c_shape>>
           ELSE IF WrongDimensions(m, Len(shape))
           THEN \* ValueError, raised before anything is done
                /\ err' = "ValueError"
                /\ called' = m
                /\ UNCHANGED <<shape, data, ctype, cdata, count_variable,
                               index_variable, method, A, count, N, array,
                               u_indices, u_shapes, c_indices, locations,
                               data_axes, c_axes, c_data, c_ctype,
                               c_cdata, c_shape>>
           ELSE IF ~IsRagged(m)
           THEN \* ValueError, raised after f has been transposed
                /\ err' = "ValueError"
                /\ called' = m
                /\ data_axes' = IF inplace THEN ndaxes ELSE data_axes
                /\ c_axes' = IF inplace THEN ncaxes ELSE c_axes
                /\ c_data' = IF inplace THEN transposed.c_data ELSE c_data
                /\ c_ctype' = IF inplace THEN transposed.c_ctype ELSE c_ctype
                /\ c_cdata' = IF inplace THEN transposed.c_cdata ELSE c_cdata
                /\ c_shape' = IF inplace THEN transposed.c_shape ELSE c_shape
                /\ UNCHANGED <<shape, data, ctype, cdata, count_variable,
                               index_variable, method, A, count, N, array,
                               u_indices, u_shapes, c_indices, locations>>
           ELSE /\ err' = ""
                /\ called' = m
                /\ method' = m
                /\ A' = arr
                /\ count' = cnt
                /\ N' = n
                /\ data' = <<>>
                /\ ctype' = CompressionType(m)
                /\ cdata' = compressed_field_data
                /\ count_variable' =
                       IF m = "indexed" THEN <<>> ELSE CountVariable(cnt)
                /\ index_variable' =
                       CASE m = "contiguous" -> <<>>
                         [] OTHER -> index
                /\ array' = <<>>
                /\ u_indices' = <<>>
                /\ u_shapes' = <<>>
                /\ c_indices' = <<>>
                /\ locations' = <<>>
                /\ data_axes' = ndaxes
                /\ c_axes' = ncaxes
                /\ c_data' = compressed.c_data
                /\ c_ctype' = compressed.c_ctype
                /\ c_cdata' = compressed.c_cdata
                /\ c_shape' = compressed.c_shape
                /\ UNCHANGED shape

\* Field.uncompress(): the data becomes the uncompressed array.
Uncompress ==
    /\ err' = ""
    /\ called' = ""
    /\ UNCHANGED <<data_axes, c_axes, geoVars, linVars, instVars, domain_axes>>
    \* for c in f.constructs.filter_by_data().values(): c.uncompress()
    /\ c_data' = IF c_axes = <<>> THEN c_data ELSE ConstructArray
    /\ c_ctype' = ""
    /\ c_cdata' = <<>>
    /\ UNCHANGED c_shape
    /\ IF ctype = ""
       THEN UNCHANGED <<shape, data, ctype, cdata, count_variable,
                        index_variable, method, A, count, N, array,
                        u_indices, u_shapes, c_indices, locations>>
       ELSE /\ data' = FieldArray
            /\ ctype' = ""
            /\ cdata' = <<>>
            /\ count_variable' = <<>>
            /\ index_variable' = <<>>
            /\ array' = <<>>
            /\ u_indices' = <<>>
            /\ u_shapes' = <<>>
            /\ c_indices' = <<>>
            /\ locations' = <<>>
            /\ UNCHANGED <<shape, method, A, count, N>>

\* Reading f.array: the compressed data is decoded.
ReadArray ==
    /\ array' = FieldArray
    /\ UNCHANGED <<shape, data, ctype, cdata, count_variable, index_variable,
                   method, A, count, N, err, u_indices, u_shapes, c_indices,
                   locations, data_axes, c_axes, called>>
    /\ UNCHANGED <<geoVars, linVars, instVars, metaVars>>

\* x.subarrays() on the field's indexed contiguous ragged array.
GetSubarrays ==
    /\ ctype = "ragged indexed contiguous"
    /\ LET subs == subarrays(count_variable, index_variable, shape)
       IN  /\ u_indices' = subs.u_indices
           /\ u_shapes' = subs.u_shapes
           /\ c_indices' = subs.c_indices
           /\ locations' = subs.locations
    /\ UNCHANGED <<shape, data, ctype, cdata, count_variable, index_variable,
                   method, A, count, N, err, array, data_axes, c_axes, called>>
    /\ UNCHANGED <<geoVars, linVars, instVars, metaVars>>

\* What the calls on the axes of the data leave alone: the compression of
\* the data (they are modelled for uncompressed data) and the record of the
\* last compress call.
NoCompression ==
    /\ UNCHANGED <<ctype, cdata, count_variable, index_variable, method, A,
                   count, N>>
    /\ called' = ""

\* Nothing has been read from the data as it is after the call.
NothingRead ==
    /\ array' = <<>>
    /\ u_indices' = <<>>
    /\ u_shapes' = <<>>
    /\ c_indices' = <<>>
    /\ locations' = <<>>

\* Field.transpose(axes, constructs, inplace) on uncompressed data; axes is
\* <<>> for None and <<a>> for the sequence a.
Transpose(axes, constructs, inplace) ==
    LET ndim == Len(shape)
        given == axes # <<>>
        iaxes == IF given THEN parse_axes(axes[1], ndim)
                 ELSE [k \in 1..ndim |-> ndim - k]
        ndaxes == new_data_axes(data_axes, iaxes)
        ncaxes == new_construct_axes(ndaxes, c_axes)
        moved == transposed_construct(ncaxes)
    IN  /\ ctype = ""
        /\ NoCompression
        /\ UNCHANGED <<geoVars, linVars, instVars, domain_axes>>
        /\ IF given /\ (~valid_axes(axes[1], ndim) \/ Len(axes[1]) # ndim)
           THEN /\ err' = "ValueError"
                /\ UNCHANGED <<shape, data, data_axes, c_axes, c_data,
                               c_ctype, c_cdata, c_shape, array, u_indices,
                               u_shapes, c_indices, locations>>
           ELSE /\ err' = ""
                /\ shape' = transposed_shape(shape, iaxes)
                /\ data' = transpose(data, shape, iaxes)
                /\ data_axes' = ndaxes
                /\ NothingRead
                /\ IF constructs
                   THEN /\ c_axes' = ncaxes
                        /\ c_data' = moved.c_data
                        /\ c_ctype' = moved.c_ctype
                        /\ c_cdata' = moved.c_cdata
                        /\ c_shape' = moved.c_shape
                   ELSE UNCHANGED <<c_axes, c_data, c_ctype, c_cdata,
                                    c_shape>>

\* Field.insert_dimension(axis, position, inplace) on uncompressed data.
InsertDimension(axis, position, inplace) ==
    LET ndim == Len(shape)
        newshape == Insert(shape, expand_position(position, ndim), 1)
    IN  /\ ctype = ""
        /\ NoCompression
        /\ UNCHANGED <<geoVars, linVars, instVars, domain_axes, c_axes,
                       c_data, c_ctype, c_cdata, c_shape>>
        /\ IF \/ axis + 1 \notin DOMAIN domain_axes
              \/ domain_axes[axis + 1] # 1
              \/ In(axis, data_axes)
              \/ position < -ndim - 1
              \/ position > ndim
           THEN /\ err' = "ValueError"
                /\ UNCHANGED <<shape, data, data_axes, array, u_indices,
                               u_shapes, c_indices, locations>>
           ELSE /\ err' = ""
                /\ data_axes' = list_insert(data_axes, position, axis)
                /\ shape' = newshape
                /\ data' = reshape(ravel(data, shape), newshape)
                /\ NothingRead

\* Field.squeeze(axes, inplace) on uncompressed data; axes is <<>> for None
\* and <<a>> for the sequence a.
Squeeze(axes, inplace) ==
    LET ndim == Len(shape)
        given == axes # <<>>
        iaxes == IF given THEN parse_axes(axes[1], ndim)
                 ELSE SortedSeq({k - 1 : k \in {q \in DOMAIN shape :
                                                   shape[q] = 1}})
        newshape == without(shape, iaxes)
    IN  /\ ctype = ""
        /\ NoCompression
        /\ UNCHANGED <<geoVars, linVars, instVars, domain_axes, c_axes,
                       c_data, c_ctype, c_cdata, c_shape>>
        /\ IF given /\ (\/ ~valid_axes(axes[1], ndim)
                        \/ \E k \in DOMAIN iaxes : shape[iaxes[k] + 1] > 1)
           THEN /\ err' = "ValueError"
                /\ UNCHANGED <<shape, data, data_axes, array, u_indices,
                               u_shapes, c_indices, locations>>
           ELSE /\ err' = ""
                /\ data_axes' = without(data_axes, iaxes)
                /\ shape' = newshape
                /\ data' = reshape(ravel(data, shape), newshape)
                /\ NothingRead

\* Field.__getitem__(indices): the field is the one that is returned, whose
\* data and construct are uncompressed subspaces.
FieldGetItem(ind) ==
    LET sel == parse_indices(ind, shape)
        newshape == [d \in DOMAIN sel |-> Len(sel[d])]
    IN  /\ UNCHANGED <<geoVars, linVars, instVars, method, A, count, N,
                       data_axes, c_axes>>
        /\ called' = ""
        /\ IF \/ out_of_range(sel, shape)
              \/ c_axes # <<>> /\ out_of_range(dice(sel), c_shape)
           THEN /\ err' = "IndexError"
                /\ UNCHANGED <<shape, data, ctype, cdata, count_variable,
                               index_variable, array, u_indices, u_shapes,
                               c_indices, locations, metaVars>>
           ELSE /\ err' = ""
                /\ shape' = newshape
                /\ data' = take(FieldArray, sel)
                /\ ctype' = ""
                /\ cdata' = <<>>
                /\ count_variable' = <<>>
                /\ index_variable' = <<>>
                /\ NothingRead
                /\ domain_axes' = set_sizes(data_axes, newshape)
                /\ IF \E k \in DOMAIN c_axes : In(c_axes[k], data_axes)
                   THEN /\ c_data' = take(ConstructArray, dice(sel))
                        /\ c_ctype' = ""
                        /\ c_cdata' = <<>>
                        /\ c_shape' = [k \in DOMAIN c_axes |->
                                          Len(dice(sel)[k])]
                   ELSE UNCHANGED <<c_data, c_ctype, c_cdata, c_shape>>

\* ------------------------------------- quadratic geographic interpolation

\* The floating-point numbers of the formulas are fixed-point numbers here:
\* the integer r stands for the number r / Scale.
Scale == 10

\* The number 1, and the 0.5 of vr.
One == Scale
Half == Scale \div 2

\* The product of two numbers, rounded towards zero.
Times(a, b) ==
    IF a * b >= 0 THEN (a * b) \div Scale ELSE -((-(a * b)) \div Scale)

\* The x, y and z components of a vector (a tuple of three arrays).
x == 1
y == 2
z == 3

\* _fsqrt(t): t ** 0.5, for t >= 0.
fsqrt(t) == CHOOSE r \in 0..(t * Scale) : r * r <= t * Scale /\ t * Scale < (r + 1) * (r + 1)

\* _fdot(va, vb)
fdot(a, b) == Times(a[x], b[x]) + Times(a[y], b[y]) + Times(a[z], b[z])

\* _fplus(va, vb)
fplus(a, b) == [i \in 1..3 |-> a[i] + b[i]]

\* _fminus(va, vb)
fminus(a, b) == [i \in 1..3 |-> a[i] - b[i]]

\* _fmultiply(r, v)
fmultiply(r, v) == [i \in 1..3 |-> Times(v[i], r)]

\* _fcross(va, vb)
fcross(a, b) ==
    <<Times(a[y], b[z]) - Times(a[z], b[y]),
      Times(a[z], b[x]) - Times(a[x], b[z]),
      Times(a[x], b[y]) - Times(a[y], b[x])>>

\* An optional coefficient: <<>> is None, <<r>> is the number r.
IsNone(c) == c = <<>>

\* The formula in which an absent coefficient counts as 0.6 instead of
\* being left out.
fcea2cvAbsentAsNumber(a, b, e, c) ==
    LET e1 == IF IsNone(e) THEN 6 ELSE e[1]
        c1 == IF IsNone(c) THEN 6 ELSE c[1]
        vr == fmultiply(Half, fplus(a, b))
        cr == fsqrt(One - Times(e1, e1) - Times(c1, c1)) - fsqrt(fdot(vr, vr))
    IN  fplus(fplus(fmultiply(cr, vr), fmultiply(e1, fminus(a, b))),
              fmultiply(c1, fcross(a, b)))

\* _fcea2cv(va, vb, ce, ca)
fcea2cv(a, b, e, c) ==
    LET vr == fmultiply(Half, fplus(a, b))
        rsqr == fdot(vr, vr)
        k0 == One
        k1 == IF ~IsNone(e) THEN k0 - Times(e[1], e[1]) ELSE k0
        k == IF ~IsNone(c) THEN k1 - Times(c[1], c[1]) ELSE k1
        cr == fsqrt(k) - fsqrt(rsqr)
        cv0 == fmultiply(cr, vr)
        cv1 == IF ~IsNone(e)
               THEN fplus(cv0, fmultiply(e[1], fminus(a, b)))
               ELSE cv0
    IN  IF ~IsNone(c)
        THEN fplus(cv1, fmultiply(c[1], fcross(a, b)))
        ELSE cv1

\* A call cv = self._fcea2cv(va, vb, ce, ca).
Fcea2cv ==
    /\ va # <<>>
    /\ cv = <<>>
    /\ cv' = fcea2cv(va, vb, ce, ca)
    /\ UNCHANGED <<va, vb, ce, ca>>
    /\ UNCHANGED <<fieldVars, linVars, instVars, metaVars, source>>

\* ------------------------------------------------- linear interpolation

\* The numbers of the interpolation are exact here: <<n, d>> with d > 0 and
\* n, d coprime is the number n / d.
Abs(a) == IF a < 0 THEN -a ELSE a

RECURSIVE GCD(_, _)
GCD(a, b) == IF b = 0 THEN a ELSE GCD(b, a % b)

Rat(n, d) == LET g == GCD(Abs(n), d) IN <<n \div g, d \div g>>

\* float(v) of an integer v.
float(v) == <<v, 1>>

RPlus(p, q) == Rat(p[1] * q[2] + q[1] * p[2], p[2] * q[2])

RMinus(p, q) == Rat(p[1] * q[2] - q[1] * p[2], p[2] * q[2])

RTimes(p, q) == Rat(p[1] * q[1], p[2] * q[2])

\* numpy.ma.masked in an array of floats.
ma_masked == <<0, 0>>

\* numpy.ma.masked_all((n,), dtype=float)
masked_all(n) == [k \in 1..n |-> ma_masked]

\* self._s(d, size): the coefficients s and 1 - s at the size positions of
\* an interpolation subarea, s going from 0 to 1 in equal steps.
s_coefficients(d, size) ==
    LET s0 == [i \in 1..size |-> Rat(i - 1, size - 1)]
    IN  [s |-> s0,
         one_minus_s |-> [i \in 1..size |-> RMinus(float(1), s0[i])]]

\* The interpolation with the two coefficients exchanged.
linear_interpolationSwapped(ua, ub, d, size, new_area) ==
    LET c == s_coefficients(d, size)
        u == [i \in 1..size |->
                 RPlus(RTimes(ua, c.s[i]), RTimes(ub, c.one_minus_s[i]))]
    IN  IF ~new_area THEN SubSeq(u, 2, size) ELSE u

\* The interpolation that holds the first tie point's value.
linear_interpolationHeld(ua, ub, d, size, new_area) ==
    LET u == [i \in 1..size |-> ua]
    IN  IF ~new_area THEN SubSeq(u, 2, size) ELSE u

\* self._linear_interpolation(ua, ub, d, size, new_area): the returned u.
linear_interpolation(ua, ub, d, size, new_area) ==
    LET c == s_coefficients(d, size)
        u == [i \in 1..size |->
                 RPlus(RTimes(ua, c.one_minus_s[i]), RTimes(ub, c.s[i]))]
    IN  IF ~new_area
        THEN \* indices[d] = slice(1, None); u = u[tuple(indices)]
             SubSeq(u, 2, size)
        ELSE u

\* Quadratic interpolation between two tie points with the interpolation
\* parameter w: u = ua*(1 - s) + ub*s + 4*w*s*(1 - s).
quadratic_interpolation(ua, ub, w, d, size, new_area) ==
    LET c == s_coefficients(d, size)
        u == [i \in 1..size |->
                 RPlus(RPlus(RTimes(ua, c.one_minus_s[i]), RTimes(ub, c.s[i])),
                       RTimes(RTimes(float(4), w),
                              RTimes(c.s[i], c.one_minus_s[i])))]
    IN  IF ~new_area THEN SubSeq(u, 2, size) ELSE u

RECURSIVE SubareasFrom(_, _)
\* self.interpolation_subareas(), from the tie point at position k on: one
\* subarea for every two consecutive tie points that are not next to each
\* other in the uncompressed dimension.  tp is the 0-based position of the
\* subarea's first tie point, [start, stop) its slice of the uncompressed
\* dimension.
SubareasFrom(tpi, k) ==
    IF k >= Len(tpi) THEN <<>>
    ELSE IF tpi[k + 1] - tpi[k] = 1 THEN SubareasFrom(tpi, k + 1)
    ELSE LET new == k = 1 \/ tpi[k] - tpi[k - 1] = 1
         IN  <<[tp |-> k - 1,
                subarea_size |-> tpi[k + 1] - tpi[k] + 1,
                new_area |-> new,
                start |-> IF new THEN tpi[k] ELSE tpi[k] + 1,
                stop |-> tpi[k + 1] + 1]>>
             \o SubareasFrom(tpi, k + 1)

interpolation_subareas == SubareasFrom(tie_point_indices, 1)

\* self.shape: the size of the uncompressed dimension.
u_size == tie_point_indices[Len(tie_point_indices)] + 1

\* The subsampled dimension (d0), and the indices that x[indices] is asked
\* with: x[0], x[-1], x[...], x[1:], and the invalid x[n] for an array of
\* size n, x[0, 0] and x['a'].
d0 == 0

ValidIndices == {"first", "last", "all", "tail"}

InvalidIndices == {"out_of_bounds", "two_axes", "string"}

\* self._first_or_last_index(indices): <<TRUE, value>> when only the first
\* or only the last element is asked for, IndexError (here <<FALSE>>) if not.
first_or_last_index(ind) ==
    CASE ind = "first" -> <<TRUE, <<float(tie_points[1])>> >>
      [] ind = "last" -> <<TRUE, <<float(tie_points[Len(tie_points)])>> >>
      [] OTHER -> <<FALSE>>

\* self.get_subspace(uarray, indices, copy=True)
get_subspace(ua, ind) ==
    CASE ind = "first" -> SubSeq(ua, 1, 1)
      [] ind = "last" -> SubSeq(ua, Len(ua), Len(ua))
      [] ind = "all" -> ua
      [] OTHER -> SubSeq(ua, 2, Len(ua))

\* The general path of __getitem__ (uncompress the entire array and then
\* subspace it).  The first pass of the loop over the subareas evaluates
\* subarea_size[d] for the arguments of _linear_interpolation: no name d
\* is bound in __getitem__, so that NameError is raised before the call is
\* made, nothing is assigned to uarray, and the statements that follow the
\* loop are not run.  Without subareas the loop is passed over.
general_path(ind) ==
    LET uarray0 == masked_all(u_size)
        none == [k \in 1..u_size |-> 0]
    IN  IF interpolation_subareas # <<>>
        THEN [raised |-> "NameError", result |-> <<>>, cache_clear |-> FALSE,
              uarray |-> uarray0, written |-> none]
        ELSE IF ind \in InvalidIndices
        THEN [raised |-> "IndexError", result |-> <<>>, cache_clear |-> TRUE,
              uarray |-> uarray0, written |-> none]
        ELSE [raised |-> "", result |-> get_subspace(uarray0, ind),
              cache_clear |-> TRUE, uarray |-> uarray0, written |-> none]

\* x[indices]: the whole of SampledLinearArray.__getitem__.
GetItem(ind) ==
    /\ tie_points # <<>>
    /\ indices' = ind
    /\ LET f == first_or_last_index(ind)
           g == general_path(ind)
       IN  IF f[1]
           THEN /\ fast' = TRUE
                /\ result' = f[2]
                /\ raised' = ""
                /\ uarray' = <<>>
                /\ written' = <<>>
                /\ UNCHANGED s_cache
           ELSE /\ fast' = FALSE
                /\ result' = g.result
                /\ raised' = g.raised
                /\ uarray' = g.uarray
                /\ written' = g.written
                /\ s_cache' = IF g.cache_clear THEN {} ELSE s_cache
    /\ UNCHANGED <<tie_points, tie_point_indices, interp>>
    /\ UNCHANGED <<fieldVars, geoVars, instVars, metaVars, source>>

\* A call u = x._linear_interpolation(ua, ub, d0, size, new_area) for the
\* two tie points and the size of the k-th subarea of x: self._s(d, size)
\* puts the key (d, size) into its cache.
LinearInterpolation(k, new_area) ==
    /\ tie_points # <<>>
    /\ k \in DOMAIN interpolation_subareas
    /\ LET a == interpolation_subareas[k]
           ua == float(tie_points[a.tp + 1])
           ub == float(tie_points[a.tp + 2])
       IN  interp' = [k |-> k, ua |-> ua, ub |-> ub, d |-> d0,
                      size |-> a.subarea_size, new_area |-> new_area,
                      u |-> linear_interpolation(ua, ub, d0, a.subarea_size,
                                                 new_area)]
    /\ s_cache' = s_cache \cup {<<d0, interpolation_subareas[k].subarea_size>>}
    /\ UNCHANGED <<tie_points, tie_point_indices, indices, fast, uarray,
                   written, result, raised>>
    /\ UNCHANGED <<fieldVars, geoVars, instVars, metaVars, source>>

\* ------------------------------------------------------ array instances

\* The dict objects that the two def statements create for the default value
\* of tie_point_indices: one for SampledLinearArray.__init__ and one for
\* SubsampledQuadraticArray.__init__, each evaluated once.
LinearDefault == 1
QuadraticDefault == 2

\* What a caller passes for tie_point_indices: nothing, or a new dict with
\* these keys.
Mappings == SUBSET {0, 1}

\* The tie_point_indices of the instance i.
Mapping(i) == heap[held[i].tie_point_indices]

\* SampledLinearArray(tie_point_indices=...): __init__ hands the dict that
\* it got, the default object when the caller gave none, to the parent's
\* __init__, which keeps it.
NewLinear(default, m) ==
    /\ heap # <<>>
    /\ Len(held) < MaxInstances
    /\ IF default
       THEN /\ held' = Append(held, [class |-> "linear",
                                     tie_point_indices |-> LinearDefault])
            /\ UNCHANGED heap
       ELSE /\ heap' = Append(heap, m)
            /\ held' = Append(held, [class |-> "linear",
                                     tie_point_indices |-> Len(heap) + 1])
    /\ UNCHANGED <<fieldVars, geoVars, linVars, metaVars, source>>

\* SubsampledQuadraticArray(tie_point_indices=...): __init__ hands
\* tie_point_indices.copy(), a new dict, to the parent's __init__.
NewQuadratic(default, m) ==
    /\ heap # <<>>
    /\ Len(held) < MaxInstances
    /\ heap' = Append(heap, IF default THEN heap[QuadraticDefault] ELSE m)
    /\ held' = Append(held, [class |-> "quadratic",
                             tie_point_indices |-> Len(heap) + 1])
    /\ UNCHANGED <<fieldVars, geoVars, linVars, metaVars, source>>

\* A change to the tie point indices of the instance i: its dict gets the
\* key of one more subsampled dimension.
SetTiePointIndex(i, key) ==
    /\ i \in DOMAIN held
    /\ heap' = [heap EXCEPT ![held[i].tie_point_indices] = @ \cup {key}]
    /\ UNCHANGED held
    /\ UNCHANGED <<fieldVars, geoVars, linVars, metaVars, source>>

\* ------------------------------------------------------------------- Init

\* The shapes of the 2-d and 3-d arrays of at most MaxSize elements.
Shapes2 ==
    {sh \in (1..MaxSize) \X (1..MaxSize) : Prod(sh) <= MaxSize}

Shapes3 ==
    {sh \in (1..MaxSize) \X (1..MaxSize) \X (1..MaxSize) : Prod(sh) <= MaxSize}

\* The array of rows in which the element at flat position k holds the value
\* k, or is missing where the mask says so.
MaskedRows(nrows, nelems, mask) ==
    [r \in 1..nrows |-> [e \in 1..nelems |->
        IF mask[(r - 1) * nelems + e] THEN cfdm_masked
        ELSE (r - 1) * nelems + e]]

\* The array of the given shape with that mask.
MaskedArray(sh, mask) ==
    IF Len(sh) = 2 THEN MaskedRows(sh[1], sh[2], mask)
    ELSE LET rows == MaskedRows(sh[1] * sh[2], sh[3], mask)
         IN  [f \in 1..sh[1] |-> [p \in 1..sh[2] |->
                 rows[(f - 1) * sh[2] + p]]]

\* The 4 x 9 array of the compress() example: rows with 3, 7, 5 and 9
\* elements followed by missing values.
ExampleShape == <<4, 9>>

ExampleArray ==
    LET lens == <<3, 7, 5, 9>>
    IN  [r \in 1..4 |-> [e \in 1..9 |->
            IF e <= lens[r] THEN (r - 1) * 9 + e ELSE cfdm_masked]]

\* The indexed contiguous array of the subarrays() example.
ExampleRaggedShape == <<2, 3, 4>>

ExampleCount == <<4, 2, 3, 3>>

ExampleIndex == <<0, 0, 1, 0>>

\* A field whose data is an uncompressed array.
InitUncompressed(sh, arr) ==
    /\ shape = sh
    /\ data = arr
    /\ ctype = ""
    /\ cdata = <<>>
    /\ count_variable = <<>>
    /\ index_variable = <<>>

\* A field whose data is an indexed contiguous ragged array, as read from a
\* dataset: the compressed element at position k holds the value k.
InitIndexedContiguous(sh, cnt, index) ==
    /\ shape = sh
    /\ data = <<>>
    /\ ctype = "ragged indexed contiguous"
    /\ cdata = [k \in 1..Sum(cnt) |-> k]
    /\ count_variable = cnt
    /\ index_variable = index

\* Count and Index arrays that fit the uncompressed shape: one feature
\* number in [0, n_features) per profile, at most max_n_profiles profiles a
\* feature, at most n_elements elements a profile.
FitsShape(sh, cnt, index) ==
    /\ Len(cnt) = Len(index)
    /\ \A k \in DOMAIN index : index[k] \in 0..(sh[1] - 1)
    /\ \A k \in DOMAIN cnt : cnt[k] \in 0..sh[3]
    /\ \A f \in 0..(sh[1] - 1) :
          Cardinality({k \in DOMAIN index : index[k] = f}) <= sh[2]

\* No compress(), read or subarrays() call has been made yet.
NoCallYet ==
    /\ called = ""
    /\ method = ""
    /\ A = <<>>
    /\ count = <<>>
    /\ N = 0
    /\ err = ""
    /\ array = <<>>
    /\ u_indices = <<>>
    /\ u_shapes = <<>>
    /\ c_indices = <<>>
    /\ locations = <<>>

\* No formula has been called.
NoFormula ==
    /\ va = <<>>
    /\ vb = <<>>
    /\ ce = <<>>
    /\ ca = <<>>
    /\ cv = <<>>

\* There is no subsampled array.
NoSubsampled ==
    /\ tie_points = <<>>
    /\ tie_point_indices = <<>>
    /\ s_cache = {}
    /\ indices = ""
    /\ fast = FALSE
    /\ uarray = <<>>
    /\ written = <<>>
    /\ result = <<>>
    /\ raised = ""
    /\ interp = <<>>

\* There is no array instance.
NoInstances ==
    /\ heap = <<>>
    /\ held = <<>>

\* A field whose metadata constructs have data of fewer than 2 dimensions.
NoConstruct ==
    /\ data_axes = range(Len(shape))
    /\ domain_axes = shape
    /\ c_axes = <<>>
    /\ c_data = <<>>
    /\ c_ctype = ""
    /\ c_cdata = <<>>
    /\ c_shape = <<>>
    /\ source = <<>>

\* There is no field.
NoField ==
    /\ NoCallYet
    /\ shape = <<>>
    /\ data = <<>>
    /\ ctype = ""
    /\ cdata = <<>>
    /\ count_variable = <<>>
    /\ index_variable = <<>>
    /\ data_axes = <<>>
    /\ domain_axes = <<>>
    /\ c_axes = <<>>
    /\ c_data = <<>>
    /\ c_ctype = ""
    /\ c_cdata = <<>>
    /\ c_shape = <<>>
    /\ source = <<>>

\* Fields with uncompressed 2-d or 3-d data.
Init ==
    /\ NoCallYet
    /\ NoFormula /\ NoSubsampled /\ NoInstances
    /\ \/ \E sh \in Shapes2 \cup Shapes3 :
             \E mask \in [1..Prod(sh) -> BOOLEAN] :
                InitUncompressed(sh, MaskedArray(sh, mask))
       \/ InitUncompressed(ExampleShape, ExampleArray)
    /\ NoConstruct

\* Fields whose data is an indexed contiguous ragged array.
InitArray ==
    /\ NoCallYet
    /\ NoFormula /\ NoSubsampled /\ NoInstances
    /\ \/ \E sh \in Shapes3 : \E n \in 1..MaxProfiles :
             \E index \in [1..n -> 0..(sh[1] - 1)] :
                \E cnt \in [1..n -> 0..sh[3]] :
                   /\ FitsShape(sh, cnt, index)
                   /\ InitIndexedContiguous(sh, cnt, index)
       \/ InitIndexedContiguous(ExampleRaggedShape, ExampleCount, ExampleIndex)
    /\ NoConstruct

\* Indexed contiguous ragged arrays of few elements, any number of profiles
\* up to MaxProfiles in any order of their features, and the array of the
\* subarrays() example.
InitSlices ==
    /\ NoCallYet
    /\ NoFormula /\ NoSubsampled /\ NoInstances
    /\ \/ \E sh \in {ash \in Shapes3 : Prod(ash) <= MaxArraySize} :
             \E n \in 1..MaxProfiles :
                \E index \in [1..n -> 0..(sh[1] - 1)] :
                   \E cnt \in [1..n -> 0..sh[3]] :
                      /\ FitsShape(sh, cnt, index)
                      /\ InitIndexedContiguous(sh, cnt, index)
       \/ InitIndexedContiguous(ExampleRaggedShape, ExampleCount, ExampleIndex)
    /\ NoConstruct

\* The sequences of 2 or 3 distinct axes out of the domain axes 0..n-1.
AxesOrders(n) ==
    {ax \in UNION {[1..k -> 0..(n - 1)] : k \in 2..3} :
        \A i, j \in DOMAIN ax : i # j => ax[i] # ax[j]}

\* The size of the domain axis that the data of the fields of InitField
\* does not span.
OtherAxisSize == 2

\* The data of a construct that spans the given axes of a domain whose axes
\* have the given sizes: the element at row-major position k holds 100 + k.
ConstructValues(dsizes, axes) ==
    LET sh == [k \in DOMAIN axes |-> dsizes[axes[k] + 1]]
    IN  reshape([k \in 1..Prod(sh) |-> 100 + k], sh)

\* Fields with uncompressed 2-d or 3-d data, the first or the last element
\* missing, and
\* a metadata construct that spans 2 or more of the domain axes: those of
\* the data and one more, in any order.
InitField ==
    /\ NoCallYet
    /\ NoFormula /\ NoSubsampled /\ NoInstances
    /\ \E sh \in {fsh \in Shapes2 \cup Shapes3 : Prod(fsh) <= MaxFieldSize} :
          /\ \E missing \in {1, Prod(sh)} :
                InitUncompressed(sh,
                    MaskedArray(sh, [k \in 1..Prod(sh) |-> k = missing]))
          /\ data_axes = range(Len(sh))
          /\ domain_axes = sh \o <<OtherAxisSize>>
          /\ c_axes \in AxesOrders(Len(sh) + 1)
          /\ c_data = ConstructValues(sh \o <<OtherAxisSize>>, c_axes)
          /\ c_shape = sizes(c_axes)
          /\ c_ctype = ""
          /\ c_cdata = <<>>
          /\ source = <<>>

\* The calls on a field that the caller does not keep: the field is the
\* one that the call returns, or the one that it changed in place.
Next ==
    \/ \E m \in Methods : \E inplace \in BOOLEAN :
          Compress(m, inplace) /\ UNCHANGED source
    \/ Uncompress /\ UNCHANGED source
    \/ ReadArray /\ UNCHANGED source
    \/ GetSubarrays /\ UNCHANGED source

Spec == Init /\ [][Next]_vars

SpecArray == InitArray /\ [][Next]_vars

SpecField == InitField /\ [][Next]_vars

SpecSlices == InitSlices /\ [][Next]_vars

\* The indices that a dimension of size n is subspaced with: the integers
\* 0, n (out of range) and, where it is not the same position as 0, -1;
\* slice(None); the slice from the last position down to the second; and
\* the list of the last and the first position.
IndexChoices(n) ==
    {[int |-> i] : i \in {0, n} \cup {k \in {-1} : n >= 2}}
    \cup {[all |-> TRUE]}
    \cup {[slice |-> <<k - 1, 0, -1>>] : k \in {q \in {n} : q >= 2}}
    \cup {[list |-> <<k - 1, 0>>] : k \in {q \in {n} : q >= 2}}

\* The index tuples that data of the given shape is subspaced with: an
\* index for each of the first dimensions.
FieldIndices(sh) ==
    UNION {{ind \in [1..len -> UNION {IndexChoices(sh[d]) : d \in 1..len}] :
               \A d \in 1..len : ind[d] \in IndexChoices(sh[d])} :
           len \in 1..Len(sh)}

\* The `axes` that transpose() is called with: None, every permutation,
\* the reversed positions with -1 for the last, one sequence that names a
\* position twice and one that is too short.
TransposeAxes(ndim) ==
    {<<>>}
    \cup {<<a>> : a \in {o \in [1..ndim -> 0..(ndim - 1)] :
                             \A j, k \in 1..ndim : j # k => o[j] # o[k]}}
    \cup {<<[k \in 1..ndim |-> IF k = 1 THEN -1 ELSE ndim - k]>>}
    \cup {<<[k \in 1..ndim |-> 0]>>, <<[k \in 1..(ndim - 1) |-> k - 1]>>}

\* The axes of the metadata construct of a field with n data axes 0..n-1
\* and one more domain axis, n: those of the data reversed, or two or three
\* axes of which one is not an axis of the data.
ConstructAxes(n) ==
    {[k \in 1..n |-> n - k], <<n, 0>>, <<1, n, 0>>}

\* Fields with uncompressed 2-d data of few elements, none missing, a domain
\* axis of size 1 that the data does not span, and a metadata construct.
InitAxes ==
    /\ NoCallYet
    /\ NoFormula /\ NoSubsampled /\ NoInstances
    /\ \E sh \in {ash \in Shapes2 : Prod(ash) <= MaxAxesSize} :
          /\ InitUncompressed(sh,
                 MaskedArray(sh, [k \in 1..Prod(sh) |-> FALSE]))
          /\ data_axes = range(Len(sh))
          /\ domain_axes = sh \o <<1>>
          /\ c_axes \in ConstructAxes(Len(sh))
          /\ c_data = ConstructValues(sh \o <<1>>, c_axes)
          /\ c_shape = sizes(c_axes)
          /\ c_ctype = ""
          /\ c_cdata = <<>>
          /\ source = <<>>

\* The calls that change the axes of the data of a field that the caller
\* does not keep.  squeeze() is called with None, with the first two
\* positions, and with one position (-1 is the last, ndim is out of range).
NextAxes ==
    \/ \E axes \in TransposeAxes(Len(shape)) : \E constructs, inplace \in BOOLEAN :
          Transpose(axes, constructs, inplace) /\ UNCHANGED source
    \/ \E axis \in 0..Len(domain_axes) :
          \E position \in (-Len(shape) - 2)..(Len(shape) + 1) :
             \E inplace \in BOOLEAN :
                InsertDimension(axis, position, inplace) /\ UNCHANGED source
    \/ \E axes \in {<<>>, << <<0, 1>> >>}
                    \cup {<<a>> : a \in [1..1 -> (-1)..Len(shape)]} :
          \E inplace \in BOOLEAN :
          Squeeze(axes, inplace) /\ UNCHANGED source
    \/ \E ind \in FieldIndices(shape) : FieldGetItem(ind) /\ UNCHANGED source

SpecAxes == InitAxes /\ [][NextAxes]_vars

\* A field as the caller sees it: its data, the compression of the data,
\* the sizes of the domain axes, the data axes, and the axes and the data
\* of the metadata construct.
FieldRecord ==
    [shape |-> shape, data |-> data, ctype |-> ctype, cdata |-> cdata,
     count_variable |-> count_variable, index_variable |-> index_variable,
     domain_axes |-> domain_axes, data_axes |-> data_axes, c_axes |-> c_axes,
     c_data |-> c_data, c_ctype |-> c_ctype, c_cdata |-> c_cdata,
     c_shape |-> c_shape]

\* A method that works on the field itself whatever `inplace` is.
AlwaysSelf(inplace) == "self"

\* _inplace_enabled_define_and_cleanup(self): the field that the method
\* works on is self when inplace, and self.copy() otherwise.
define_and_cleanup(inplace) == IF inplace THEN "self" ELSE "copy"

\* What a call that worked on f leaves of the field that it was called on,
\* with the `inplace` of the call: the actions describe what the call did
\* to f, and no statement of compress, uncompress or __getitem__ assigns to
\* self or to anything that self still shares with a copy.
Kept(inplace, f) ==
    [inplace |-> inplace,
     field |-> IF f = "self" THEN FieldRecord' ELSE FieldRecord]

\* The calls on a field that the caller keeps: `source` is that field after
\* the call.  __getitem__ has no `inplace` and works on new = self.copy().
NextSource ==
    \/ \E m \in Methods : \E inplace \in BOOLEAN :
          /\ Compress(m, inplace)
          /\ source' = Kept(inplace, define_and_cleanup(inplace))
    \/ \E inplace \in BOOLEAN :
          /\ Uncompress
          /\ source' = Kept(inplace, define_and_cleanup(inplace))
    \/ \E ind \in FieldIndices(shape) :
          /\ FieldGetItem(ind)
          /\ source' = Kept(FALSE, "copy")

\* Fields with uncompressed 2-d or 3-d data of few elements, the first or
\* the last of them missing, and a metadata construct that spans the axes
\* of the data, or the domain axis that the data does not span and the
\* first axis of the data.
InitSource ==
    /\ NoCallYet
    /\ NoFormula /\ NoSubsampled /\ NoInstances
    /\ \E sh \in {fsh \in Shapes2 \cup Shapes3 : Prod(fsh) <= MaxAxesSize} :
          /\ \E missing \in {1, Prod(sh)} :
                InitUncompressed(sh,
                    MaskedArray(sh, [k \in 1..Prod(sh) |-> k = missing]))
          /\ data_axes = range(Len(sh))
          /\ domain_axes = sh \o <<OtherAxisSize>>
          /\ c_axes \in {range(Len(sh)), <<Len(sh), 0>>}
          /\ c_data = ConstructValues(sh \o <<OtherAxisSize>>, c_axes)
          /\ c_shape = sizes(c_axes)
          /\ c_ctype = ""
          /\ c_cdata = <<>>
          /\ source = <<>>

SpecSource == InitSource /\ [][NextSource]_vars

\* Fields with uncompressed 2-d data, none missing, and a metadata
\* construct that spans the axes of the data, or the domain axis that the
\* data does not span and the first axis of the data.
InitSubspace ==
    /\ NoCallYet
    /\ NoFormula /\ NoSubsampled /\ NoInstances
    /\ \E sh \in {fsh \in Shapes2 : Prod(fsh) <= MaxFieldSize} :
          /\ InitUncompressed(sh,
                 MaskedArray(sh, [k \in 1..Prod(sh) |-> FALSE]))
          /\ data_axes = range(Len(sh))
          /\ domain_axes = sh \o <<OtherAxisSize>>
          /\ c_axes \in {range(Len(sh)), <<Len(sh), 0>>}
          /\ c_data = ConstructValues(sh \o <<OtherAxisSize>>, c_axes)
          /\ c_shape = sizes(c_axes)
          /\ c_ctype = ""
          /\ c_cdata = <<>>
          /\ source = <<>>

\* Subspaces of a field that the caller keeps.
NextSubspace ==
    \E ind \in FieldIndices(shape) :
       /\ FieldGetItem(ind)
       /\ source' = Kept(FALSE, "copy")

SpecSubspace == InitSubspace /\ [][NextSubspace]_vars

\* Fields with uncompressed 2-d or 3-d data of few elements, none missing,
\* and a metadata construct of two or three axes.
InitTranspose ==
    /\ NoCallYet
    /\ NoFormula /\ NoSubsampled /\ NoInstances
    /\ \E sh \in {fsh \in Shapes2 \cup Shapes3 : Prod(fsh) <= MaxAxesSize} :
          /\ InitUncompressed(sh,
                 MaskedArray(sh, [k \in 1..Prod(sh) |-> FALSE]))
          /\ data_axes = range(Len(sh))
          /\ domain_axes = sh \o <<OtherAxisSize>>
          /\ c_axes \in ConstructAxes(Len(sh))
          /\ c_data = ConstructValues(sh \o <<OtherAxisSize>>, c_axes)
          /\ c_shape = sizes(c_axes)
          /\ c_ctype = ""
          /\ c_cdata = <<>>
          /\ source = <<>>

\* Transpositions of a field: `source` is the `axes` and the `constructs`
\* of the call.
NextTranspose ==
    \E axes \in TransposeAxes(Len(shape)) : \E constructs, inplace \in BOOLEAN :
       /\ Transpose(axes, constructs, inplace)
       /\ source' = [axes |-> axes, constructs |-> constructs]

SpecTranspose == InitTranspose /\ [][NextTranspose]_vars

\* The vectors and the coefficients that the formula is called with: the
\* components -1, 0 and 0.6; the coefficients None, 0, 0.6 and -0.8, such
\* that 1 - ce*ce - ca*ca has a square root.
Vectors == [1..3 -> {-One, 0, 6}]

Coefficients == {<<>>, <<0>>, <<6>>, <<-8>>}

Squared(c) == IF IsNone(c) THEN 0 ELSE Times(c[1], c[1])

InitFormulas ==
    /\ NoField /\ NoSubsampled /\ NoInstances
    /\ va \in Vectors
    /\ vb \in Vectors
    /\ ce \in Coefficients
    /\ ca \in Coefficients
    /\ Squared(ce) + Squared(ca) <= One
    /\ cv = <<>>

NextFormulas == Fcea2cv

SpecFormulas == InitFormulas /\ [][NextFormulas]_vars

\* The tie point index arrays of an uncompressed dimension of size n: they
\* start at 0, end at n - 1 and increase; two indices that differ by 1 are
\* the last tie point of an area and the first of the next, and every area
\* has 2 tie points or more.
TiePointIndices(n) ==
    {t \in UNION {[1..k -> 0..(n - 1)] : k \in 2..n} :
        /\ t[1] = 0
        /\ t[Len(t)] = n - 1
        /\ \A k \in 1..(Len(t) - 1) :
              /\ t[k] < t[k + 1]
              /\ t[k + 1] - t[k] = 1 =>
                    /\ k > 1 /\ t[k] - t[k - 1] > 1
                    /\ k + 1 < Len(t) /\ t[k + 2] - t[k + 1] > 1}

TieValues == {15, 135}

\* The documented array: tie points 15, 135, 225, 255, 345 at the
\* uncompressed positions 0, 4, 7, 8, 11.
ExampleTiePoints == <<15, 135, 225, 255, 345>>

ExampleTiePointIndices == <<0, 4, 7, 8, 11>>

\* The documented cell boundaries: the bounds tie points 0, 150, 240, 240,
\* 360 of the same tie point indices, with the parameter w = 5, 10, 5 of the
\* three subareas.
ExampleBoundsTiePoints == <<0, 150, 240, 240, 360>>

ExampleW == <<5, 10, 5>>

\* The cells of the k-th subarea of the documented array, and the values at
\* their boundaries: a subarea of n cells has n + 1 boundaries, the first
\* and the last at its two bounds tie points.  A subarea that continues an
\* area does not hold the cell of its first tie point.
ExampleCells(k) ==
    LET a == SubareasFrom(ExampleTiePointIndices, 1)[k]
    IN  a.stop - a.start

ExampleBoundaries(k) ==
    LET a == SubareasFrom(ExampleTiePointIndices, 1)[k]
    IN  quadratic_interpolation(float(ExampleBoundsTiePoints[a.tp + 1]),
                                float(ExampleBoundsTiePoints[a.tp + 2]),
                                float(ExampleW[k]), d0, ExampleCells(k) + 1,
                                TRUE)

\* The decoded bounds of the 12 cells: <<lower, upper>> of each.
ExampleBounds ==
    LET areas == SubareasFrom(ExampleTiePointIndices, 1)
    IN  [cell \in 1..12 |->
            LET k == CHOOSE j \in DOMAIN areas :
                        areas[j].start < cell /\ cell <= areas[j].stop
                o == cell - areas[k].start
            IN  <<ExampleBoundaries(k)[o], ExampleBoundaries(k)[o + 1]>>]

InitLinear ==
    /\ NoField /\ NoFormula /\ NoInstances
    /\ \/ \E n \in 3..MaxLength : \E t \in TiePointIndices(n) :
             /\ tie_point_indices = t
             /\ tie_points \in [1..Len(t) -> TieValues]
       \/ /\ tie_point_indices = ExampleTiePointIndices
          /\ tie_points = ExampleTiePoints
    /\ s_cache = {}
    /\ indices = ""
    /\ fast = FALSE
    /\ uarray = <<>>
    /\ written = <<>>
    /\ result = <<>>
    /\ raised = ""
    /\ interp = <<>>

NextLinear ==
    \/ \E ind \in ValidIndices \cup InvalidIndices : GetItem(ind)
    \/ \E k \in 1..MaxLength : \E new_area \in BOOLEAN :
          LinearInterpolation(k, new_area)

SpecLinear == InitLinear /\ [][NextLinear]_vars

\* The two classes have been defined and no instance has been made: the
\* two default dicts are empty.
InitInstances ==
    /\ NoField /\ NoFormula /\ NoSubsampled
    /\ heap = <<{}, {}>>
    /\ held = <<>>

NextInstances ==
    \/ \E default \in BOOLEAN : \E m \in Mappings : NewLinear(default, m)
    \/ \E default \in BOOLEAN : \E m \in Mappings : NewQuadratic(default, m)
    \/ \E i \in 1..MaxInstances : \E key \in {0, 1} : SetTiePointIndex(i, key)

SpecInstances == InitInstances /\ [][NextInstances]_vars

\* ------------------------------------------------------------ properties

\* The rows of the array that the last compress() encoded.
RowsOfA == flatten(A, shape)

\* A row's missing values are only trailing padding.
TrailingRow(d) ==
    \A e \in DOMAIN d : d[e] = cfdm_masked =>
        \A e2 \in DOMAIN d : e2 > e => d[e2] = cfdm_masked

TrailingOnly(rows) == \A r \in DOMAIN rows : TrailingRow(rows[r])

\* The number of elements of a row up to and including its last non-missing
\* one; 0 for a row that is entirely missing.
TrimmedLength(d) ==
    LET present == {e \in DOMAIN d : d[e] # cfdm_masked}
    IN  IF present = {} THEN 0
        ELSE CHOOSE e \in present : \A e2 \in present : e2 <= e

TrimmedLengths(rows) == [r \in DOMAIN rows |-> TrimmedLength(rows[r])]

\* The number of compressed elements that precede those of row r.
Before(lens, r) == Sum(SubSeq(lens, 1, r - 1))

NonZero(n) == n # 0

\* Some entirely missing row comes before a row that has elements.
EmptyRowBeforeData(rows) ==
    \E r1, r2 \in DOMAIN rows :
        /\ r1 < r2
        /\ TrimmedLength(rows[r1]) = 0
        /\ TrimmedLength(rows[r2]) > 0

\* The field's data was encoded by compress(m) and is still so compressed.
Encoded(m, ct) == method = m /\ ctype = ct

\* The field's data was encoded by compress(m) and then decoded, either by
\* reading f.array or by uncompress(): the decoded array.
Decoded(m, ct) ==
    IF method = m /\ ctype = ct /\ array # <<>> THEN array
    ELSE IF method = m /\ ctype = "" THEN data
    ELSE <<>>

\* C1: round trip of contiguous ragged compression: for a 2-d array whose
\* rows have missing values only as trailing padding (entirely missing rows
\* anywhere), compress('contiguous') followed by decoding gives back the
\* original array, the same positions masked.
C1_RoundTripContiguous ==
    (/\ Decoded("contiguous", "ragged contiguous") # <<>>
     /\ TrailingOnly(RowsOfA))
    => Decoded("contiguous", "ragged contiguous") = A

\* C2: round trip of indexed contiguous ragged compression: for a 3-d array
\* whose profile rows have missing values only as trailing padding,
\* compress('indexed_contiguous') followed by decoding through subarrays()
\* gives back the original array: every non-empty profile at its original
\* (feature, profile) position, everything else masked.
C2_RoundTripIndexedContiguous ==
    (/\ Decoded("indexed_contiguous", "ragged indexed contiguous") # <<>>
     /\ TrailingOnly(RowsOfA))
    => Decoded("indexed_contiguous", "ragged indexed contiguous") = A

\* C3: round trip of indexed ragged compression: for a 2-d array whose rows
\* have missing values only as trailing padding, compress('indexed')
\* followed by indexed decoding gives back the original array, also when
\* some rows are entirely missing.
C3_RoundTripIndexed ==
    (/\ Decoded("indexed", "ragged indexed") # <<>>
     /\ TrailingOnly(RowsOfA))
    => Decoded("indexed", "ragged indexed") = A

\* C3 witness: an indexed-compressed array with an entirely missing row
\* before a row with elements has been read back.
C3_Witness ==
    /\ Encoded("indexed", "ragged indexed")
    /\ array # <<>>
    /\ TrailingOnly(RowsOfA)
    /\ EmptyRowBeforeData(RowsOfA)
    /\ array = A

\* The positions (1-based, ascending) in Count/Index of the profiles that
\* Index assigns to feature f.
ProfilesOf(f) ==
    SortedSeq({p \in DOMAIN index_variable : index_variable[p] = f})

\* The compressed slice of the profile at position p of Count.
ProfileSlice(p) ==
    <<Before(count_variable, p), Before(count_variable, p) + count_variable[p]>>

\* The positions k at which `locations` names feature f, profile slot j.
At(f, j) == {k \in DOMAIN locations : locations[k] = <<f, j, 0>>}

\* subarrays() has been called on the field's indexed contiguous array.
HaveSubarrays == ctype = "ragged indexed contiguous" /\ u_indices # <<>>

\* C4: subarrays() returns four sequences of exactly n_features x
\* max_n_profiles elements each, also when Index gives some feature no
\* profile, and the k-th compressed slice is that of the profile belonging to
\* the feature and profile slot that the k-th location names.
C4_SubarraysAligned ==
    HaveSubarrays =>
        /\ Len(u_indices) = shape[1] * shape[2]
        /\ Len(u_shapes) = shape[1] * shape[2]
        /\ Len(c_indices) = shape[1] * shape[2]
        /\ Len(locations) = shape[1] * shape[2]
        /\ \A k \in DOMAIN locations :
              LET f == locations[k][1]
                  j == locations[k][2]
              IN  j < Len(ProfilesOf(f)) =>
                      c_indices[k] = <<ProfileSlice(ProfilesOf(f)[j + 1])>>

\* C5: for every feature f and profile slot j, the compressed slice at
\* location (f, j) has the length of the Count of the profile placed there
\* when j is less than the number of profiles of f, and is zero-length
\* otherwise (a ghost slot).
C5_SliceLengths ==
    HaveSubarrays =>
        \A f \in 0..(shape[1] - 1) : \A j \in 0..(shape[2] - 1) :
            \E k \in At(f, j) :
                /\ k \in DOMAIN c_indices
                /\ LET c == c_indices[k][1]
                   IN  c[2] - c[1] =
                          IF j < Len(ProfilesOf(f))
                          THEN count_variable[ProfilesOf(f)[j + 1]]
                          ELSE 0

\* The field's array is the one of the subarrays() example.
IsExampleRagged ==
    /\ shape = ExampleRaggedShape
    /\ count_variable = ExampleCount
    /\ index_variable = ExampleIndex

\* C6: for the documented (2, 3, 4) example, subarrays() yields, in the order
\* of the locations (0,0) (0,1) (0,2) (1,0) (1,1) (1,2), the compressed
\* slices (4,6) (0,4) (9,12) (6,9) (0,0) (0,0).
C6_ExampleSlices ==
    (HaveSubarrays /\ IsExampleRagged) =>
        c_indices = << << <<4, 6>> >>, << <<0, 4>> >>, << <<9, 12>> >>,
                       << <<6, 9>> >>, << <<0, 0>> >>, << <<0, 0>> >> >>

\* C7: profile p is placed at (Index[p], next free profile slot of feature
\* Index[p]): the profiles of a feature occupy its slots 0, 1, 2, ... in
\* ascending order of p, and no two profiles share a slot.
C7_ProfilePlacement ==
    HaveSubarrays =>
        \A p \in DOMAIN index_variable :
            LET f == index_variable[p]
                j == Cardinality({q \in 1..(p - 1) : index_variable[q] = f})
            IN  \E k \in At(f, j) :
                    /\ k \in DOMAIN c_indices
                    /\ c_indices[k] = <<ProfileSlice(p)>>

\* The field's data is compressed by the encoding of the last compress().
StillEncoded ==
    \/ Encoded("contiguous", "ragged contiguous")
    \/ Encoded("indexed", "ragged indexed")
    \/ Encoded("indexed_contiguous", "ragged indexed contiguous")

\* C8: in compress(), the count of each flattened row is the number of
\* elements up to and including the last non-missing one (0 for an entirely
\* missing row); missing values before that element are kept; the
\* compressed data is the concatenation in row order of the first count[r]
\* elements of each row, so N is the sum of the counts.
C8_EncodeTrimming ==
    StillEncoded =>
        /\ count = TrimmedLengths(RowsOfA)
        /\ N = Sum(count)
        /\ Len(cdata) = N
        /\ \A r \in DOMAIN RowsOfA : \A e \in 1..TrimmedLength(RowsOfA[r]) :
              cdata[Before(TrimmedLengths(RowsOfA), r) + e] = RowsOfA[r][e]

\* C8 witness: an array has been encoded that has a missing value before the
\* last non-missing element of a row, and an entirely missing row.
C8_Witness ==
    /\ StillEncoded
    /\ \E r \in DOMAIN RowsOfA : ~TrailingRow(RowsOfA[r])
    /\ \E r \in DOMAIN RowsOfA : TrimmedLength(RowsOfA[r]) = 0
    /\ \E k \in DOMAIN cdata : cdata[k] = cfdm_masked

\* C9: after compress('contiguous') or compress('indexed_contiguous') the
\* Count variable has no zero entry; its entries are the non-zero trimmed
\* row lengths in row order, and their sum is the size N of the compressed
\* dimension.
C9_CountVariable ==
    (\/ Encoded("contiguous", "ragged contiguous")
     \/ Encoded("indexed_contiguous", "ragged indexed contiguous"))
    => /\ \A k \in DOMAIN count_variable : count_variable[k] # 0
       /\ count_variable = SelectSeq(TrimmedLengths(RowsOfA), NonZero)
       /\ Sum(count_variable) = N
       /\ Sum(count_variable) = Len(cdata)

\* C9 witness: a Count variable built from an array with an entirely missing
\* row among rows with elements.
C9_Witness ==
    /\ \/ Encoded("contiguous", "ragged contiguous")
       \/ Encoded("indexed_contiguous", "ragged indexed contiguous")
    /\ EmptyRowBeforeData(RowsOfA)
    /\ Len(count_variable) >= 2
    /\ Len(count_variable) < Len(count)

\* C10: compress('indexed') gives an Index of length N in which element j is
\* the 0-based number of the row that compressed element j was taken from:
\* non-decreasing, with values in [0, n_features); for row counts 3, 7, 5, 9
\* it is 0 three times, 1 seven times, 2 five times and 3 nine times.
C10_IndexVariable ==
    Encoded("indexed", "ragged indexed") =>
        LET lens == TrimmedLengths(RowsOfA)
        IN  /\ Len(index_variable) = N
            /\ Len(index_variable) = Len(cdata)
            /\ \A j \in DOMAIN index_variable :
                  LET i == index_variable[j]
                  IN  /\ i \in 0..(shape[1] - 1)
                      /\ Before(lens, i + 1) < j
                      /\ j <= Before(lens, i + 1) + lens[i + 1]
                      /\ cdata[j] = RowsOfA[i + 1][j - Before(lens, i + 1)]
            /\ \A j \in 1..(Len(index_variable) - 1) :
                  index_variable[j] <= index_variable[j + 1]
            /\ A = ExampleArray =>
                  index_variable =
                      Repeat(0, 3) \o Repeat(1, 7) \o Repeat(2, 5) \o Repeat(3, 9)

\* C10 witness: the 4 x 9 example with row counts 3, 7, 5, 9 has been
\* compressed by the indexed method.
C10_Witness ==
    /\ Encoded("indexed", "ragged indexed")
    /\ A = ExampleArray
    /\ count = <<3, 7, 5, 9>>
    /\ Len(index_variable) = 24

\* ------------------------------------------------- compress: failing calls

\* What a compress call that raises must leave as it was: the data, its
\* compression, the data axes, the domain axes, and the axis order and the
\* data of the metadata construct.
FieldUnchanged ==
    UNCHANGED <<shape, data, ctype, cdata, count_variable, index_variable,
                data_axes, c_axes, domain_axes, c_data, c_ctype, c_cdata,
                c_shape>>

\* C19: compress('gathered') and compress with an unknown method name raise
\* ValueError for every field with data, whatever its compression and
\* whether in place or not, and leave the data and its compression as they
\* were (no field is returned); a field's data is only ever compressed by
\* one of the three ragged methods.
C19_OnlyRaggedSucceeds ==
    [][/\ \A m \in Methods \ {"contiguous", "indexed", "indexed_contiguous"} :
             \A inplace \in BOOLEAN :
                Compress(m, inplace) =>
                   /\ err' = "ValueError"
                   /\ UNCHANGED <<shape, data, ctype, cdata, count_variable,
                                  index_variable>>
       /\ ctype' # ctype /\ ctype' # "" =>
             /\ method' \in {"contiguous", "indexed", "indexed_contiguous"}
             /\ ctype' = CompressionType(method')
             /\ err' = ""]_vars

\* compress('gathered') has raised on a field whose data a ragged method had
\* compressed before.
C19_Witness ==
    /\ called = "gathered"
    /\ err = "ValueError"
    /\ ctype = "ragged contiguous"

\* C20: a compress call that raises (wrong number of dimensions, 'gathered',
\* unknown method), in place or not, leaves the field exactly as it was:
\* data, compression type, data axes, and the axis order of every metadata
\* construct.
C20_NoPartialEffect ==
    [][\A m \in Methods : \A inplace \in BOOLEAN :
          Compress(m, inplace) /\ err' = "ValueError" => FieldUnchanged]_vars

\* --------------------------------------------- formulas: absent coefficients

\* C17: _fcea2cv with ce None returns the vector it returns with ce = 0, and
\* with ca None the vector it returns with ca = 0; with both None that is
\* cr * vr for vr = (va + vb) / 2 and cr = sqrt(1) - sqrt(vr . vr).  The
\* call returns a vector whichever coefficient is absent.
C17_AbsentIsZero ==
    cv # <<>> =>
        /\ Len(cv) = 3
        /\ IsNone(ce) => cv = fcea2cv(va, vb, <<0>>, ca)
        /\ IsNone(ca) => cv = fcea2cv(va, vb, ce, <<0>>)
        /\ IsNone(ce) /\ IsNone(ca) =>
              LET vr == [i \in 1..3 |-> Times(Half, va[i] + vb[i])]
                  cr == fsqrt(One) - fsqrt(fdot(vr, vr))
              IN  cv = [i \in 1..3 |-> Times(cr, vr[i])]

\* The formula has been called without ce and with a ca that contributes.
C17_Witness ==
    /\ cv # <<>>
    /\ IsNone(ce)
    /\ ~IsNone(ca)
    /\ fcross(va, vb) # <<0, 0, 0>>
    /\ cv # fcea2cv(va, vb, <<>>, <<>>)
    /\ cv # fcea2cv(va, vb, <<6>>, ca)

\* ------------------------------------------------ subsampled: interpolation

\* The values u of the last _linear_interpolation call start at this offset
\* of the subarea.
FirstOffset == IF interp.new_area THEN 0 ELSE 1

IsExampleArray ==
    /\ tie_points = ExampleTiePoints
    /\ tie_point_indices = ExampleTiePointIndices

C12_SeamHandling ==
    /\ interp # <<>> =>
          LET all == [i \in 1..interp.size |->
                         Rat(interp.ua[1] * (interp.size - i)
                                + interp.ub[1] * (i - 1),
                             interp.size - 1)]
          IN  IF interp.new_area THEN interp.u = all
              ELSE interp.u = Tail(all)
    /\ indices \in ValidIndices /\ ~fast =>
          /\ raised = ""
          /\ \A pos \in DOMAIN written : written[pos] = 1

\* The values of the subarea k at its last position and of the subarea
\* k + 1 at its first, for linear and for quadratic interpolation with w.
LastOfEarlier(k, w) ==
    LET a == interpolation_subareas[k]
        ua == float(tie_points[a.tp + 1])
        ub == float(tie_points[a.tp + 2])
        lin == linear_interpolation(ua, ub, d0, a.subarea_size, a.new_area)
        quad == quadratic_interpolation(ua, ub, float(w), d0, a.subarea_size,
                                        a.new_area)
    IN  <<lin[Len(lin)], quad[Len(quad)]>>

FirstOfLater(k, w) ==
    LET a == interpolation_subareas[k + 1]
        ua == float(tie_points[a.tp + 1])
        ub == float(tie_points[a.tp + 2])
    IN  <<linear_interpolation(ua, ub, d0, a.subarea_size, TRUE)[1],
          quadratic_interpolation(ua, ub, float(w), d0, a.subarea_size,
                                  TRUE)[1]>>

\* The subarea k + 1 continues the area of the subarea k.
Adjacent(k) ==
    /\ k \in DOMAIN interpolation_subareas
    /\ k + 1 \in DOMAIN interpolation_subareas
    /\ ~interpolation_subareas[k + 1].new_area

C14_CacheCleared ==
    [][\A ind \in ValidIndices \cup InvalidIndices :
          GetItem(ind) /\ ~fast' => s_cache' = {}]_vars

\* C15: a request for only the first or only the last element returns the
\* result of the fast path: no subarea is visited, the cache is left as it
\* is, and the value is the one that the general path (decode everything,
\* then subspace) returns for the same indices.
C15_FastPath ==
    [][\A ind \in ValidIndices \cup InvalidIndices :
          GetItem(ind) /\ fast' =>
             /\ UNCHANGED s_cache
             /\ written' = <<>>
             /\ raised' = ""
             /\ general_path(ind).raised = ""
             /\ general_path(ind).result = result']_vars

\* C16: a request with invalid indices (out of bounds, wrong number of axes,
\* unsupported type) ends in IndexError and returns no array.
C16_InvalidIndices ==
    [][\A ind \in InvalidIndices :
          GetItem(ind) => raised' = "IndexError" /\ result' = <<>>]_vars

\* ------------------------------------------------------ instance isolation

RequiredDimensions(m) == IF m = "indexed_contiguous" THEN 3 ELSE 2

\* C21: compress('contiguous') and compress('indexed') succeed only on data
\* of exactly 2 dimensions and compress('indexed_contiguous') only on data
\* of exactly 3; with any other number the call raises ValueError before
\* anything is computed or changed.
C21_DimensionPrecondition ==
    [][\A m \in {"contiguous", "indexed", "indexed_contiguous"} :
          \A inplace \in BOOLEAN :
             Compress(m, inplace) /\ Len(shape) # RequiredDimensions(m) =>
                /\ err' = "ValueError"
                /\ FieldUnchanged
                /\ UNCHANGED <<method, A, count, N>>]_vars

\* compress('indexed_contiguous') has raised on 2-d data, and
\* compress('contiguous') on 3-d data.
C21_Witness ==
    /\ err = "ValueError"
    /\ \/ called = "indexed_contiguous" /\ Len(shape) = 2
       \/ called = "contiguous" /\ Len(shape) = 3
    /\ c_axes # <<>>

\* -------------------------------------------------- compress: repeated calls

\* What the field holds besides the outcome of the call: the data, its
\* compression, the axes, the encoding made by the last compression and
\* what has been read from the data since.
FieldState ==
    <<shape, data, ctype, cdata, count_variable, index_variable, data_axes,
      c_axes, method, A, count, N, array, u_indices, u_shapes, c_indices,
      locations, domain_axes, c_data, c_ctype, c_cdata, c_shape>>

\* C22: compress(m) on a field whose data is already compressed by the ragged
\* method m, in place or not, raises nothing and returns the field as it is:
\* the compressed array, the count and index variables, the axes of the data
\* and of the metadata construct are unchanged and nothing is encoded again,
\* so that a second compress(m) gives the field of the first.
C22_CompressIdempotent ==
    [][\A m \in {"contiguous", "indexed", "indexed_contiguous"} :
          \A inplace \in BOOLEAN :
             Compress(m, inplace) /\ ctype = CompressionType(m) =>
                /\ err' = ""
                /\ FieldState' = FieldState]_vars

\* The field is compressed by the method of the last call, which raised
\* nothing, and its data has been read since it was encoded.
C22_Witness ==
    /\ IsRagged(called)
    /\ ctype = CompressionType(called)
    /\ method = called
    /\ err = ""
    /\ array # <<>>
    /\ c_axes # <<>>

\* ------------------------------------------------ compress: the state machine

\* The compression type follows the calls: a compress that raises nothing
\* leaves the type of its method, one that raises leaves the type as it
\* was, uncompress leaves none, and reading changes nothing.
TypeFollowsCalls ==
    /\ \A m \in Methods : \A inplace \in BOOLEAN :
          Compress(m, inplace) =>
             IF err' = "" THEN ctype' = CompressionType(m) ELSE ctype' = ctype
    /\ Uncompress => ctype' = ""
    /\ (ReadArray \/ GetSubarrays) => ctype' = ctype

\* C23: over any sequence of compress calls, raising or not, and uncompress
\* calls, the compression type of the data is that of the last compress that
\* raised nothing, or none when uncompress came after it; a call that raises
\* leaves the type as it was; and the array that the data decodes to is the
\* same before and after every call.
C23_CompressionState ==
    [][TypeFollowsCalls /\ FieldArray' = FieldArray]_vars

\* ------------------------------------------- subarrays(): compressed slices

\* The positions k of c_indices whose slice holds the compressed element e.
SlicesHolding(e) ==
    {k \in DOMAIN c_indices :
        c_indices[k][1][1] <= e /\ e < c_indices[k][1][2]}

\* C27: subarrays() gives the profile at position j of Count the compressed
\* slice from the sum of the counts before it to that sum plus its own count
\* (from 0 for j = 0); every other slice is the empty slice (0, 0); and the
\* slices of the profiles are disjoint and cover [0, sum(Count)), so that
\* every compressed element lies in exactly one slice, which is paired with
\* an uncompressed subarray.
C27_SlicesPartition ==
    HaveSubarrays =>
        /\ \A p \in DOMAIN count_variable :
              \E k \in DOMAIN c_indices : c_indices[k] = <<ProfileSlice(p)>>
        /\ \A k \in DOMAIN c_indices :
              \/ c_indices[k] = << <<0, 0>> >>
              \/ \E p \in DOMAIN count_variable :
                    c_indices[k] = <<ProfileSlice(p)>>
        /\ \A e \in 0..(Sum(count_variable) - 1) :
              /\ Cardinality(SlicesHolding(e)) = 1
              /\ \A k \in SlicesHolding(e) : k \in DOMAIN u_indices

\* subarrays() has been called on an array of three profiles, not in the
\* order of their features, one feature having fewer profiles than slots.
C27_Witness ==
    /\ HaveSubarrays
    /\ Len(count_variable) = 3
    /\ \A p \in DOMAIN count_variable : count_variable[p] > 0
    /\ \E p \in 1..2 : index_variable[p] > index_variable[p + 1]
    /\ \E k \in DOMAIN c_indices : c_indices[k] = << <<0, 0>> >>

\* --------------------------------------- compress: the Index and Count lists

\* The flattened rows (profiles) of the encoded array that have elements, in
\* row-major order of (feature, profile).
NonEmptyRows ==
    SortedSeq({r \in DOMAIN RowsOfA : TrimmedLength(RowsOfA[r]) > 0})

\* C28: after compress('indexed_contiguous') of data of shape (F, P, E), the
\* Index variable has one entry per entry of the Count variable, one for each
\* profile that has elements; its values lie in [0, F) and never decrease;
\* feature f is named once per profile of f that has elements, at most P
\* times; and Count[k] is the trimmed length of the k-th such profile, which
\* is a profile of feature Index[k].
C28_IndexMatchesCount ==
    Encoded("indexed_contiguous", "ragged indexed contiguous") =>
        /\ Len(index_variable) = Len(count_variable)
        /\ Len(index_variable) = Len(NonEmptyRows)
        /\ \A k \in DOMAIN index_variable :
              /\ index_variable[k] \in 0..(shape[1] - 1)
              /\ k > 1 => index_variable[k - 1] <= index_variable[k]
              /\ index_variable[k] = (NonEmptyRows[k] - 1) \div shape[2]
              /\ count_variable[k] = TrimmedLength(RowsOfA[NonEmptyRows[k]])
        /\ \A f \in 0..(shape[1] - 1) :
              /\ Len(ProfilesOf(f)) =
                    Cardinality({p \in 1..shape[2] :
                                    TrimmedLength(A[f + 1][p]) > 0})
              /\ Len(ProfilesOf(f)) <= shape[2]

\* Data of two or more features has been compressed, some profile slot
\* being empty and the profiles that have elements being of two features.
C28_Witness ==
    /\ Encoded("indexed_contiguous", "ragged indexed contiguous")
    /\ shape[1] >= 2
    /\ Len(index_variable) >= 2
    /\ Len(index_variable) < shape[1] * shape[2]
    /\ index_variable[1] # index_variable[Len(index_variable)]

\* ------------------------------------------ compress: the metadata construct

\* The construct's array as compress() encodes it: after the transposition
\* that gives it the axes it has after the call.
ConstructRows == flatten(transposed_array(c_axes'), c_shape')

\* The construct spans the axes of the data, in that order, after the call.
SpansDataAxes == c_axes' = data_axes'

\* The construct spans the feature and profile axes of the data, in that
\* order, after the call.
SpansProfileAxes == c_axes' = SubSeq(data_axes', 1, Len(data_axes') - 1)

\* C29: a compress(m) that raises nothing and encodes the data compresses
\* the metadata construct with it.  A construct that spans the axes of the
\* data in the same order gets the compression type of the data and, for
\* each row, the first count[r] elements of its own row at the place where
\* the data has the elements of that row.  For 'indexed_contiguous' a
\* construct that spans the feature and profile axes becomes an indexed
\* ragged array with one element per profile that has elements: the
\* construct's value for that profile.  A construct that spans other axes
\* stays uncompressed, with its values.
C29_ConstructCompressed ==
    [][\A m \in {"contiguous", "indexed", "indexed_contiguous"} :
          \A inplace \in BOOLEAN :
             Compress(m, inplace) /\ err' = "" /\ ctype # CompressionType(m)
             =>
                IF SpansDataAxes
                THEN /\ c_ctype' = ctype'
                     /\ Len(c_cdata') = Len(cdata')
                     /\ \A r \in DOMAIN count' :
                           Slice(c_cdata', Before(count', r),
                                 Before(count', r) + count'[r])
                           = Slice(ConstructRows[r], 0, count'[r])
                ELSE IF m = "indexed_contiguous" /\ SpansProfileAxes
                THEN /\ c_ctype' = "ragged indexed"
                     /\ Len(c_cdata') = Len(index_variable')
                     /\ Len(c_cdata') = Len(NonEmptyRows')
                     /\ \A k \in DOMAIN c_cdata' :
                           c_cdata'[k] =
                              element(transposed_array(c_axes'),
                                      <<(NonEmptyRows'[k] - 1) \div shape[2],
                                        (NonEmptyRows'[k] - 1) % shape[2]>>)
                ELSE /\ c_ctype' = ""
                     /\ c_cdata' = <<>>
                     /\ c_data' = transposed_array(c_axes')]_vars

\* ------------------------------------------------- the field that is kept

IndexedSize(i, n) ==
    IF "int" \in DOMAIN i THEN 1
    ELSE IF "list" \in DOMAIN i THEN Len(i.list)
    ELSE IF "slice" \in DOMAIN i
    THEN IF i.slice[3] > 0 THEN i.slice[2] - i.slice[1]
         ELSE i.slice[1] - i.slice[2]
    ELSE n

\* C25: a subspace that raises nothing has data of as many dimensions as
\* the field, each of the size that its index gives it whatever the other
\* indices are (a dimension without an index keeps its size), and each
\* domain axis that the data spans has the size of its dimension of the
\* new data, the other domain axes keeping theirs.
C25_SubspaceShape ==
    [][\A ind \in FieldIndices(shape) :
          FieldGetItem(ind) /\ err' = ""
          =>
             /\ Len(shape') = Len(shape)
             /\ \A d \in DOMAIN shape :
                   shape'[d] = IF d <= Len(ind)
                               THEN IndexedSize(ind[d], shape[d])
                               ELSE shape[d]
             /\ \A d \in DOMAIN data_axes' :
                   domain_axes'[data_axes'[d] + 1] = shape'[d]
             /\ \A a \in DOMAIN domain_axes :
                   ~In(a - 1, data_axes')
                   => domain_axes'[a] = domain_axes[a]]_vars

\* The subspace f[[1, 0], [1, 0]] of a field of shape (2, 2): the lists
\* select a 2 x 2 block, each along its own axis.
C25_Witness ==
    /\ DOMAIN source # {}
    /\ err = ""
    /\ source.field.shape = <<2, 2>>
    /\ shape = <<2, 2>>
    /\ domain_axes = <<2, 2, OtherAxisSize>>
    /\ data[1][1] = source.field.data[2][2]
    /\ data[1][2] = source.field.data[2][1]
    /\ data[2][1] = source.field.data[1][2]
    /\ data[2][2] = source.field.data[1][1]

\* --------------------------------------------------------- transposition

\* The position of an axis that is in axes.
PositionIn(axis, axes) == CHOOSE k \in DOMAIN axes : axes[k] = axis

\* The `axes` of the last call as positions from 0, those of the data
\* reversed when the call had none.
CalledAxes ==
    IF source'.axes = <<>> THEN [k \in DOMAIN shape |-> Len(shape) - k]
    ELSE [k \in DOMAIN shape |->
             IF source'.axes[1][k] < 0 THEN source'.axes[1][k] + Len(shape)
             ELSE source'.axes[1][k]]

\* The construct's element at each index is the one it had at the index
\* that names the same position along every axis.
SameConstructValues ==
    \A n \in 0..(Prod(c_shape') - 1) :
       LET j == unravel_index(n, c_shape')
           i == [k \in DOMAIN c_axes |-> j[PositionIn(c_axes[k], c_axes')]]
       IN  element(c_data', j) = element(c_data, i)

\* C26: a transpose() that raises nothing gives the data the axes of
\* `axes`, new axis k being the old axis axes[k], or its axes reversed
\* without `axes`.  With constructs=True the metadata construct of two or
\* more dimensions keeps its set of axes, those of them that the data
\* spans come in the order of the new data axes, and its shape and values
\* are those of its new axes; with constructs=False it does not change.
C26_Transposed ==
    [][err' = ""
       =>
          /\ Len(data_axes') = Len(data_axes)
          /\ \A k \in DOMAIN shape :
                /\ data_axes'[k] = data_axes[CalledAxes[k] + 1]
                /\ shape'[k] = shape[CalledAxes[k] + 1]
          /\ IF source'.constructs /\ Len(c_axes) >= 2
             THEN /\ Len(c_axes') = Len(c_axes)
                  /\ \A k \in DOMAIN c_axes : In(c_axes[k], c_axes')
                  /\ \A i, j \in DOMAIN c_axes' :
                        /\ i < j
                        /\ In(c_axes'[i], data_axes')
                        /\ In(c_axes'[j], data_axes')
                        => PositionIn(c_axes'[i], data_axes')
                              < PositionIn(c_axes'[j], data_axes')
                  /\ c_shape' = [k \in DOMAIN c_axes' |->
                                    domain_axes'[c_axes'[k] + 1]]
                  /\ SameConstructValues
             ELSE UNCHANGED <<c_axes, c_data, c_ctype, c_cdata, c_shape>>]_vars

\* A field of 3-d data whose construct had the axes of the data, reversed,
\* has been transposed with its construct, without `axes`, to the axes
\* that the data had before, and the construct has the axes of the data.
C26_Witness ==
    /\ DOMAIN source # {}
    /\ err = ""
    /\ source.constructs
    /\ source.axes = <<>>
    /\ data_axes = <<0, 1, 2>>
    /\ c_axes = <<0, 1, 2>>
    /\ c_shape = shape
    /\ \E j, k \in DOMAIN shape : shape[j] # shape[k]

\* ------------------------------------------------- the axes of the data

====
